---- MODULE Spec2Model ----
(***************************************************************************)
(* A model of pr_genius: the side-by-side line diff of PRReviewAnalysis,   *)
(* the batch pagination of App, the Azure DevOps service calls, the GLM    *)
(* analysis call, parsePRUrl, the vote codes, the forms' handlers, the     *)
(* branch validation of PRCreationForm and the load, file selection and    *)
(* formatting of PRReviewAnalysis.                                         *)
(***************************************************************************)
EXTENDS Integers, Sequences, FiniteSets, TLC

VARIABLES
    dSource,      \* buildSideBySideDiff: the `source` argument (a text)
    dTarget,      \* buildSideBySideDiff: the `target` argument (a text)
    dPc,          \* "input" before the call, "done" after it returned
    dResult,      \* the returned { left, right }
    gApiKey,      \* glmService: whether process.env.GLM_API_KEY is set
    gUpstream,    \* glmService: the outcome of client.chat.completions.create
    gPc,          \* glmService analyzeBatch: "call", "awaiting", "done"
    gResult,      \* glmService analyzeBatch: how the returned promise settled
    state,        \* App: the AppState held by useState
    aiProvider,   \* App: the selected AI provider
    apiKeys,      \* process.env: which of the two API keys are set
    calls,        \* App: the startAnalysis / loadNextBatch invocations in flight
    nCalls,       \* the number of invocations started so far
    merged,       \* history: the batches merged into state.analysis since its last reset
    overlapped,   \* history: some loadNextBatch started while another call was in flight
    fChanges,     \* fetchBatchContents: the `changes` argument
    fRequests,    \* fetchBatchContents: the indexes whose file content was requested
    fSettled,     \* fetchBatchContents: the per-change promises settled so far, in settling order
    fPc,          \* fetchBatchContents: "call", "awaiting", "done"
    fResult,      \* fetchBatchContents: the list the returned promise resolved to
    sOp,          \* service call: "getPRFileDiffs" or "getPRMetadata"
    sPc,          \* service call: the request it is waiting for, or "done"
    sLog,         \* history: the requests sent by the call, with how each ended
    sChanges,     \* service call: the local `changes`
    sCommits,     \* service call: a commit id is known (the fallbacks, commitId)
    sFiles,       \* getPRFileDiffs: the per-file results of the content stage
    sResult,      \* service call: how the returned promise settled
    hHandler,     \* handler: the operation the user triggered
    hPc,          \* handler: "ready", "awaiting" or "done"
    hStep,        \* handler: the await it has reached
    hPending,     \* handler: the upstream calls of that await still running
    hBusy,        \* handler: its in-flight flag (isAnalyzing, isSubmittingVote, ...)
    hError,       \* component: the error message the page renders, or "null"
    hAlert,       \* component: the text of the alert dialog shown, or "none"
    hFailure,     \* history: the message of the upstream failure, or "none"
    hFallback,    \* history: a service returned its fallback object to the handler
    pFn,          \* pure function: the function that is called
    pArg,         \* pure function: its argument
    pPc,          \* pure function: "call" before the call, "done" after it returned
    pResult,      \* pure function: the returned value
    cMounted,     \* PRCreationForm: the form is rendered
    cReady,       \* PRCreationForm: organization, project, repository and pat are set
    cSourceBranch,      \* PRCreationForm: sourceBranch
    cTargetBranch,      \* PRCreationForm: targetBranch
    cBranchValidation,  \* PRCreationForm: branchValidation
    cValidations, \* PRCreationForm: the validateBranch calls, in the order they started
    cState,       \* PRCreationForm: state (isCreating, error, result)
    cRequests,    \* PRCreationForm: the createPR requests sent
    rMounted,     \* PRReviewAnalysis: the component is rendered
    rFields,      \* PRReviewAnalysis: the pull request the four fields name, 0 if none
    rLoads,       \* PRReviewAnalysis: the loadPRDetails calls, in the order they started
    rReviewDetails,     \* PRReviewAnalysis: reviewDetails
    rFileDiffs,   \* PRReviewAnalysis: fileDiffs
    rSelectedFile,      \* PRReviewAnalysis: selectedFile
    rFormattedSource,   \* PRReviewAnalysis: formattedSource
    rFormattedTarget,   \* PRReviewAnalysis: formattedTarget
    rIsFormatting,      \* PRReviewAnalysis: isFormatting
    rFormatRuns,  \* PRReviewAnalysis: the runs of the formatting effect
    rIsAnalyzing, \* PRReviewAnalysis: isAnalyzing
    rAnalysisRequests   \* PRReviewAnalysis: the file diffs sent to analyzeFunction

diffVars == <<dSource, dTarget, dPc, dResult>>

glmVars == <<gApiKey, gUpstream, gPc, gResult>>

appVars == <<state, aiProvider, apiKeys, calls, nCalls, merged, overlapped>>

fetchVars == <<fChanges, fRequests, fSettled, fPc, fResult>>

serviceVars == <<sOp, sPc, sLog, sChanges, sCommits, sFiles, sResult>>

handlerVars ==
    <<hHandler, hPc, hStep, hPending, hBusy, hError, hAlert, hFailure, hFallback>>

pureVars == <<pFn, pArg, pPc, pResult>>

creationVars ==
    <<cMounted, cReady, cSourceBranch, cTargetBranch, cBranchValidation, cValidations,
      cState, cRequests>>

reviewVars ==
    <<rMounted, rFields, rLoads, rReviewDetails, rFileDiffs, rSelectedFile,
      rFormattedSource, rFormattedTarget, rIsFormatting, rFormatRuns, rIsAnalyzing,
      rAnalysisRequests>>

formVars == <<creationVars, reviewVars>>

vars ==
    <<diffVars, glmVars, appVars, fetchVars, serviceVars, handlerVars, pureVars,
      formVars>>

----------------------------------------------------------------------------
(* Bounds *)

\* longest text, in characters, handed to buildSideBySideDiff
MaxTextLen == 3

\* largest number of changed files of a pull request
MaxChanges == 21

\* number of startAnalysis / loadNextBatch invocations in one run of App
MaxCalls == 3

\* largest number of changes handed to fetchBatchContents
MaxBatchFiles == 3

\* largest number of changes an Azure DevOps endpoint answers with
MaxFiles == 2

\* number of startAnalysis / loadNextBatch invocations in one run of App that
\* analyses pull requests of BatchSize + 1 changes only
MaxOverlapCalls == 4

\* largest number of path segments of a URL handed to parsePRUrl
MaxPathLen == 6

\* longest source branch name, in characters, of generateTitleFromBranch
MaxBranchLen == 5

\* largest absolute value of a vote code handed to getVoteStatus
MaxVote == 10

\* longest list of reviewers or work item ids handed to addReviewersToPR or
\* linkWorkItemsToPR
MaxListLen == 2

\* number of validateBranch calls in one run of PRCreationForm
MaxValidations == 3

\* number of createPR requests in one run of PRCreationForm
MaxSubmits == 1

\* number of loadPRDetails calls in one run of PRReviewAnalysis
MaxLoads == 2

\* number of runs of the formatting effect in one run of PRReviewAnalysis
MaxSelections == 2

\* number of analyzeFileChanges calls in one run of PRReviewAnalysis
MaxAnalyses == 1

\* number of calls of one kind (startAnalysis / loadNextBatch, validateBranch,
\* loadPRDetails) in one run in which every pending call is answered
MaxLiveCalls == 2

----------------------------------------------------------------------------
(* Generic helpers *)

Max(a, b) == IF a >= b THEN a ELSE b

Min(a, b) == IF a <= b THEN a ELSE b

RECURSIVE Reverse(_)
Reverse(s) == IF s = <<>> THEN <<>> ELSE Append(Reverse(Tail(s)), Head(s))

RECURSIVE SelectSeqIdx(_, _)
\* the subsequence of s at the positions of the set I, in increasing order
SelectSeqIdx(s, I) ==
    IF s = <<>> THEN <<>>
    ELSE LET rest == SelectSeqIdx(SubSeq(s, 1, Len(s) - 1), I \ {Len(s)})
         IN  IF Len(s) \in I THEN Append(rest, s[Len(s)]) ELSE rest

\* all texts of at most n characters over the alphabet cs
TextsUpTo(cs, n) == UNION {[1..k -> cs] : k \in 0..n}

----------------------------------------------------------------------------
(* The side-by-side diff (PRReviewAnalysis.tsx) *)

LF == "\n"
CR == "\r"

\* the characters of the modelled texts: one letter, carriage return, line feed
Chars == {"a", CR, LF}

\* DiffLine.lineNumber is `number | null`; null is modelled as 0, which is
\* never a line number (lines are numbered from 1)
Null == 0

\* a line that ended at a line feed: /\r?\n/ swallows one preceding CR
StripCR(line) ==
    IF line # <<>> /\ line[Len(line)] = CR
    THEN SubSeq(line, 1, Len(line) - 1)
    ELSE line

RECURSIVE SplitAcc(_, _, _)
SplitAcc(text, cur, acc) ==
    IF text = <<>> THEN Append(acc, cur)
    ELSE IF Head(text) = LF
         THEN SplitAcc(Tail(text), <<>>, Append(acc, StripCR(cur)))
         ELSE SplitAcc(Tail(text), Append(cur, Head(text)), acc)

\* text.split(/\r?\n/)
SplitLines(text) == SplitAcc(text, <<>>, <<>>)

\* LcsTable that does not carry the count over a mismatch
LcsTable_Mut(sourceLines, targetLines) ==
    LET tab[i \in 0..Len(sourceLines), j \in 0..Len(targetLines)] ==
            IF i = 0 \/ j = 0 THEN 0
            ELSE IF sourceLines[i] = targetLines[j]
                 THEN tab[i - 1, j - 1] + 1
                 ELSE Min(tab[i - 1, j], tab[i, j - 1])
    IN  tab

\* the table filled by the nested loops; rows and columns 0 stay 0
LcsTable(sourceLines, targetLines) ==
    LET tab[i \in 0..Len(sourceLines), j \in 0..Len(targetLines)] ==
            IF i = 0 \/ j = 0 THEN 0
            ELSE IF sourceLines[i] = targetLines[j]
                 THEN tab[i - 1, j - 1] + 1
                 ELSE Max(tab[i - 1, j], tab[i, j - 1])
    IN  tab

\* the rows pushed for a matching pair of lines
SameRow(sourceLines, targetLines, i, j) ==
    [l |-> [text |-> sourceLines[i], lineNumber |-> i, type |-> "same"],
     r |-> [text |-> targetLines[j], lineNumber |-> j, type |-> "same"]]

\* AddedRow with the target's line number copied to the placeholder on the left
AddedRow_Mut(targetLines, j) ==
    [l |-> [text |-> <<>>, lineNumber |-> j, type |-> "empty"],
     r |-> [text |-> targetLines[j], lineNumber |-> j, type |-> "added"]]

\* the rows pushed for a target line without a partner
AddedRow(targetLines, j) ==
    [l |-> [text |-> <<>>, lineNumber |-> Null, type |-> "empty"],
     r |-> [text |-> targetLines[j], lineNumber |-> j, type |-> "added"]]

\* the rows pushed for a source line without a partner
RemovedRow(sourceLines, i) ==
    [l |-> [text |-> sourceLines[i], lineNumber |-> i, type |-> "removed"],
     r |-> [text |-> <<>>, lineNumber |-> Null, type |-> "empty"]]

\* the branch the while loop takes at (i, j)
BacktrackBranch(sourceLines, targetLines, lcsTable, i, j) ==
    IF i > 0 /\ j > 0 /\ sourceLines[i] = targetLines[j] THEN "same"
    ELSE IF j > 0 /\ (i = 0 \/ lcsTable[i, j - 1] >= lcsTable[i - 1, j])
         THEN "added"
         ELSE "removed"

RECURSIVE Backtrack(_, _, _, _, _, _)
\* while (i > 0 || j > 0): the pairs of rows in the order they are pushed
Backtrack(sourceLines, targetLines, lcsTable, i, j, rows) ==
    IF ~(i > 0 \/ j > 0) THEN rows
    ELSE LET b == BacktrackBranch(sourceLines, targetLines, lcsTable, i, j)
         IN  IF b = "same"
             THEN Backtrack(sourceLines, targetLines, lcsTable, i - 1, j - 1,
                            Append(rows, SameRow(sourceLines, targetLines, i, j)))
             ELSE IF b = "added"
             THEN Backtrack(sourceLines, targetLines, lcsTable, i, j - 1,
                            Append(rows, AddedRow(targetLines, j)))
             ELSE Backtrack(sourceLines, targetLines, lcsTable, i - 1, j,
                            Append(rows, RemovedRow(sourceLines, i)))

\* buildSideBySideDiff without the final left.reverse() / right.reverse()
buildSideBySideDiff_Mut(source, target) ==
    LET sourceLines == SplitLines(source)
        targetLines == SplitLines(target)
        lcsTable    == LcsTable(sourceLines, targetLines)
        rows        == Backtrack(sourceLines, targetLines, lcsTable,
                                 Len(sourceLines), Len(targetLines), <<>>)
    IN  [left  |-> [k \in 1..Len(rows) |-> rows[k].l],
         right |-> [k \in 1..Len(rows) |-> rows[k].r]]

buildSideBySideDiff(source, target) ==
    LET sourceLines == SplitLines(source)
        targetLines == SplitLines(target)
        lcsTable    == LcsTable(sourceLines, targetLines)
        rows        == Backtrack(sourceLines, targetLines, lcsTable,
                                 Len(sourceLines), Len(targetLines), <<>>)
        left        == [k \in 1..Len(rows) |-> rows[k].l]
        right       == [k \in 1..Len(rows) |-> rows[k].r]
    IN  [left |-> Reverse(left), right |-> Reverse(right)]

NoDiff == [left |-> <<>>, right |-> <<>>]

\* one call of buildSideBySideDiff(dSource, dTarget)
BuildDiff ==
    /\ dPc = "input"
    /\ dResult' = buildSideBySideDiff(dSource, dTarget)
    /\ dPc' = "done"
    /\ UNCHANGED <<dSource, dTarget>>
    /\ UNCHANGED <<glmVars, appVars, fetchVars, serviceVars, handlerVars, pureVars, formVars>>

----------------------------------------------------------------------------
(* JSON values, as JavaScript sees them after JSON.parse *)

JUndef == [t |-> "undefined"]
JNull == [t |-> "null"]
JBool(b) == [t |-> "bool", v |-> b]
JNum(n) == [t |-> "num", v |-> n]
JStr(s) == [t |-> "str", v |-> s]
JArr(seq) == [t |-> "arr", v |-> seq]
JObj(rec) == [t |-> "obj", v |-> rec]

\* {} : the object without properties
EmptyObj == JObj(<<>>)

\* value == null, i.e. null or undefined
Nullish(v) == v.t \in {"undefined", "null"}

\* JavaScript truthiness
Truthy(v) ==
    CASE v.t \in {"undefined", "null"} -> FALSE
      [] v.t = "bool" -> v.v
      [] v.t = "num"  -> v.v # 0
      [] v.t = "str"  -> v.v # ""
      [] OTHER        -> TRUE

\* v.k for a v that is neither null nor undefined
Prop(v, k) == IF v.t = "obj" /\ k \in DOMAIN v.v THEN v.v[k] ELSE JUndef

\* a ?? b
Coalesce(a, b) == IF Nullish(a) THEN b ELSE a

\* a || b
OrElse(a, b) == IF Truthy(a) THEN a ELSE b

\* the elements of an array value
Items(v) == IF v.t = "arr" THEN v.v ELSE <<>>

RECURSIVE Concat(_)
\* the concatenation of a sequence of sequences
Concat(ss) == IF ss = <<>> THEN <<>> ELSE Head(ss) \o Concat(Tail(ss))

\* a settled promise
Resolve(v) == [kind |-> "resolve", value |-> v]
Reject(m) == [kind |-> "reject", message |-> m]

\* the outcome of a synchronous step: a value or a thrown Error
Ok(v) == [ok |-> TRUE, value |-> v]
Thrown(m) == [ok |-> FALSE, message |-> m]

----------------------------------------------------------------------------
(* Strings of the modelled LLM answers and the string methods used on them *)

\* String.prototype.toLowerCase on the modelled strings
ToLowerCase(s) ==
    CASE s = "Low" -> "low"
      [] s = "Medium" -> "medium"
      [] s = "High" -> "high"
      [] s = "HIGH" -> "high"
      [] s = "Critical" -> "critical"
      [] s = "Abandoned" -> "abandoned"
      [] s = "ABANDONED" -> "abandoned"
      [] s = "Weak Auth check" -> "weak auth check"
      [] s = "SECURITY hole" -> "security hole"
      [] s = "Cache for performance" -> "cache for performance"
      [] s = "Delete" -> "delete"
      [] s = "NONE" -> "none"
      [] s = "Contoso" -> "contoso"
      [] s = "PullRequest" -> "pullrequest"
      [] s = "pullRequests" -> "pullrequests"
      [] s = "My%20Project" -> "my%20project"
      [] OTHER -> s

\* String.prototype.includes, on lower-cased modelled strings
Includes(s, sub) ==
    CASE sub = "security"     -> s \in {"security hole"}
      [] sub = "auth"         -> s \in {"weak auth check"}
      [] sub = "performance"  -> s \in {"cache for performance"}
      [] sub = "optimization" -> s \in {"loop optimization"}
      [] OTHER -> FALSE

\* String.prototype.trim on the modelled strings
Trim(s) == IF s \in {" ", "  "} THEN "" ELSE s

----------------------------------------------------------------------------
(* parsePRUrl (azureDevOpsService, prCreationService, PRCreationForm) *)

\* the strings handed to parsePRUrl: texts that are no URL, and https URLs
\* given by the labels of their host, the segments of their path and whether
\* the path ends with a slash
Urls ==
    {[href |-> text, host |-> <<>>, segments |-> <<>>, trailingSlash |-> FALSE] :
        text \in {"", "not a url"}}
    \cup
    [href : {"https"},
     host : {<<"dev", "azure", "com">>, <<"Contoso", "visualstudio", "com">>,
             <<"localhost">>},
     segments : TextsUpTo({"contoso", "web", "_git", "pullrequest", "42"},
                          MaxPathLen),
     trailingSlash : BOOLEAN]

\* new URL(url): throws for a text that is no URL; hostname is lowercased;
\* with hostname.split(".") and pathname.split("/") applied
NewURL(url) ==
    IF url.href # "https"
    THEN Thrown("Invalid URL")
    ELSE Ok([hostParts |-> [k \in 1..Len(url.host) |-> ToLowerCase(url.host[k])],
             pathSplit |-> <<"">> \o url.segments \o
                 (IF url.trailingSlash \/ url.segments = <<>>
                  THEN <<"">> ELSE <<>>)])

\* parts[i] of JavaScript: undefined beyond the end
At(parts, i) == IF i < Len(parts) THEN JStr(parts[i + 1]) ELSE JUndef

\* parsePRUrl that answers the dev.azure.com shape with the repository in
\* place of the project
parsePRUrl_Mut(url) ==
    LET parsed == NewURL(url)
    IN  IF ~parsed.ok THEN JNull
        ELSE LET pathParts == SelectSeq(parsed.value.pathSplit, LAMBDA p : p # "")
                 hostParts == parsed.value.hostParts
             IN  IF /\ Len(pathParts) >= 6
                    /\ At(pathParts, 2) = JStr("_git")
                    /\ At(pathParts, 4) = JStr("pullrequest")
                 THEN JObj([organization |-> At(pathParts, 0),
                            project |-> At(pathParts, 3),
                            repository |-> At(pathParts, 3),
                            pullRequestId |-> At(pathParts, 5)])
                 ELSE IF /\ At(hostParts, 1) = JStr("visualstudio")
                         /\ At(pathParts, 1) = JStr("_git")
                 THEN JObj([organization |-> At(hostParts, 0),
                            project |-> At(pathParts, 0),
                            repository |-> At(pathParts, 2),
                            pullRequestId |-> At(pathParts, 4)])
                 ELSE JNull

\* parsePRUrl(url): the AzureDevOpsParams, or null
parsePRUrl(url) ==
    LET parsed == NewURL(url)
    IN  IF ~parsed.ok THEN JNull
        ELSE LET pathParts == SelectSeq(parsed.value.pathSplit, LAMBDA p : p # "")
                 hostParts == parsed.value.hostParts
             IN  IF /\ Len(pathParts) >= 6
                    /\ At(pathParts, 2) = JStr("_git")
                    /\ At(pathParts, 4) = JStr("pullrequest")
                 THEN JObj([organization |-> At(pathParts, 0),
                            project |-> At(pathParts, 1),
                            repository |-> At(pathParts, 3),
                            pullRequestId |-> At(pathParts, 5)])
                 ELSE IF /\ At(hostParts, 1) = JStr("visualstudio")
                         /\ At(pathParts, 1) = JStr("_git")
                 THEN JObj([organization |-> At(hostParts, 0),
                            project |-> At(pathParts, 0),
                            repository |-> At(pathParts, 2),
                            pullRequestId |-> At(pathParts, 4)])
                 ELSE JNull

\* one call of parsePRUrl(pArg)
ParsePRUrl ==
    /\ pFn = "parsePRUrl" /\ pPc = "call"
    /\ pResult' = parsePRUrl(pArg)
    /\ pPc' = "done"
    /\ UNCHANGED <<pFn, pArg>>
    /\ UNCHANGED <<diffVars, glmVars, appVars, fetchVars, serviceVars, handlerVars, formVars>>

----------------------------------------------------------------------------
(* glmService.analyzeBatch *)

TextContent(form, json) == [form |-> form, json |-> json]

\* !content
ContentMissing(content) == content.form \in {"none", "empty"}

\* JSON.parse(content): only a text that is exactly one JSON document parses
ParseDirect(content) ==
    IF content.form = "json" THEN Ok(content.json) ELSE Thrown("SyntaxError")

\* content.match(/\{[\s\S]*\}/) and JSON.parse(jsonMatch[0])
ParseBraces(content) ==
    CASE content.form = "wrapped" -> Ok(content.json)
      [] content.form = "broken"  -> Thrown("SyntaxError")
      [] OTHER -> Thrown("Could not extract valid JSON from response")

\* the two parse attempts
GlmParse(content) ==
    LET first == ParseDirect(content)
    IN  IF first.ok THEN first
        ELSE LET second == ParseBraces(content)
             IN  IF second.ok THEN second ELSE Thrown("Failed to parse GLM response as JSON")

normalizeRiskLevel(value) ==
    IF value.t # "str" THEN "Medium"
    ELSE LET normalized == ToLowerCase(value.v)
         IN  CASE normalized = "low" -> "Low"
               [] normalized = "medium" -> "Medium"
               [] normalized = "high" -> "High"
               [] normalized = "critical" -> "Critical"
               [] OTHER -> "Medium"

normalizeString(value) ==
    CASE value.t = "str" -> value.v
      [] Nullish(value) -> ""
      [] value.t = "num" -> ToString(value.v)
      [] value.t = "bool" -> (IF value.v THEN "true" ELSE "false")
      [] OTHER -> "[json]"

normalizeStringArray(value) ==
    IF ~Truthy(value) THEN <<>>
    ELSE LET list    == IF value.t = "arr" THEN value.v ELSE <<value>>
             trimmed == [k \in 1..Len(list) |-> Trim(normalizeString(list[k]))]
         IN  SelectSeq(trimmed, LAMBDA entry : entry # "")

\* a list of strings as a JSON array
StrArr(strings) == JArr([k \in 1..Len(strings) |-> JStr(strings[k])])

HealthOfRisk(riskLevel) ==
    CASE riskLevel = "High" -> "Needs Improvement"
      [] riskLevel = "Critical" -> "Critical"
      [] riskLevel = "Low" -> "Excellent"
      [] OTHER -> "Good"

SeverityOfRisk(riskLevel) ==
    IF riskLevel \in {"High", "Critical"} THEN "high"
    ELSE IF riskLevel = "Medium" THEN "medium" ELSE "low"

\* the comment made of issue number `index` (0-based)
IssueComment(issue, index, riskLevel) ==
    JObj([file |-> JStr("review"),
          line |-> JNum(index + 1),
          comment |-> JStr(issue),
          severity |-> JStr(SeverityOfRisk(riskLevel)),
          type |-> JStr(IF Includes(ToLowerCase(issue), "security")
                        THEN "security" ELSE "logic")])

\* the PRAnalysis built from GLM's own answer structure
TransformedAnalysis(glmResponse, kpis) ==
    LET codeReview      == OrElse(Prop(glmResponse, "codeReview"), EmptyObj)
        issues          == normalizeStringArray(Prop(codeReview, "issues"))
        recommendations == normalizeStringArray(Prop(codeReview, "recommendations"))
        riskLevel       == normalizeRiskLevel(Prop(kpis, "riskLevel"))
    IN  JObj([
          summary |->
              OrElse(Prop(codeReview, "summary"),
                     OrElse(Prop(glmResponse, "summary"),
                            JStr("Code review completed with GLM analysis"))),
          overallHealth |-> JStr(HealthOfRisk(riskLevel)),
          architecturalImpact |->
              OrElse(Prop(codeReview, "summary"),
                     OrElse(Prop(glmResponse, "architecturalImpact"),
                            JStr("Architectural changes detected"))),
          contextAlignment |->
              OrElse(Prop(glmResponse, "contextAlignment"),
                     JStr("Changes align with system requirements")),
          keyPoints |-> StrArr(issues \o recommendations),
          securityConcerns |->
              StrArr(SelectSeq(issues, LAMBDA issue :
                         \/ Includes(ToLowerCase(issue), "security")
                         \/ Includes(ToLowerCase(issue), "auth"))),
          performanceTips |->
              StrArr(SelectSeq(recommendations, LAMBDA rec :
                         \/ Includes(ToLowerCase(rec), "performance")
                         \/ Includes(ToLowerCase(rec), "optimization"))),
          stats |-> JObj([
              complexityScore |-> Coalesce(Prop(kpis, "complexityScore"), JNum(5)),
              riskLevel |-> JStr(riskLevel),
              estimatedReviewMinutes |->
                  Coalesce(Prop(kpis, "estimatedReviewMinutes"), JNum(30)),
              blastRadius |-> Coalesce(Prop(kpis, "blastRadius"), JStr("Module-wide")),
              testPresence |-> Coalesce(Prop(kpis, "testPresence"), JStr("Partial")),
              breakingChange |-> JBool(Truthy(Prop(kpis, "breakingChange")))]),
          codeReviewComments |->
              JArr([k \in 1..Len(issues) |->
                       IssueComment(issues[k], k - 1, riskLevel)])])

\* "Fallback: create a minimal valid PRAnalysis"
MinimalAnalysis ==
    JObj([summary |-> JStr("Analysis completed with limited data"),
          overallHealth |-> JStr("Good"),
          architecturalImpact |-> JStr("Changes detected"),
          contextAlignment |-> JStr("Standard alignment"),
          keyPoints |-> StrArr(<<"Analysis completed">>),
          securityConcerns |-> JArr(<<>>),
          performanceTips |-> JArr(<<>>),
          stats |-> JObj([complexityScore |-> JNum(5),
                          riskLevel |-> JStr("Medium"),
                          estimatedReviewMinutes |-> JNum(30),
                          blastRadius |-> JStr("Module-wide"),
                          testPresence |-> JStr("Missing"),
                          breakingChange |-> JBool(FALSE)]),
          codeReviewComments |-> JArr(<<>>)])

\* the text of the comment in the catch block's PRAnalysis
FailureComment(message) ==
    "Analysis failed: " \o (IF message # "" THEN message ELSE "Unknown error")

\* the PRAnalysis returned by the catch block
FailureAnalysis(message) ==
    JObj([summary |-> JStr("Analysis failed - please try again"),
          overallHealth |-> JStr("Critical"),
          architecturalImpact |-> JStr("Unable to analyze"),
          contextAlignment |-> JStr("Analysis incomplete"),
          keyPoints |-> StrArr(<<"Analysis failed">>),
          securityConcerns |-> StrArr(<<"Unable to complete security analysis">>),
          performanceTips |-> StrArr(<<"Unable to analyze performance">>),
          stats |-> JObj([complexityScore |-> JNum(1),
                          riskLevel |-> JStr("Critical"),
                          estimatedReviewMinutes |-> JNum(0),
                          blastRadius |-> JStr("Isolated"),
                          testPresence |-> JStr("Missing"),
                          breakingChange |-> JBool(FALSE)]),
          codeReviewComments |-> JArr(<<
              JObj([file |-> JStr("analysis"),
                    line |-> JNum(1),
                    comment |-> JStr(FailureComment(message)),
                    severity |-> JStr("high"),
                    type |-> JStr("logic")])>>)])

\* what the try block does with the parsed answer
GlmShape(parsed) ==
    IF Nullish(parsed) THEN Thrown("Cannot read properties of null (reading 'summary')")
    ELSE IF Truthy(Prop(parsed, "summary")) /\ Truthy(Prop(parsed, "stats"))
    THEN Ok(parsed)
    ELSE LET glmResponse == Coalesce(Prop(parsed, "answer"), parsed)
             kpis == Coalesce(Prop(glmResponse, "managementKPIs"),
                              Coalesce(Prop(glmResponse, "kpis"),
                                       Prop(glmResponse, "stats")))
         IN  IF Truthy(kpis)
             THEN Ok(TransformedAnalysis(glmResponse, kpis))
             ELSE Ok(MinimalAnalysis)

\* the try block, given how the chat-completions request ended
GlmTry(upstream) ==
    IF upstream.type = "reject" THEN Thrown(upstream.message)
    ELSE IF ContentMissing(upstream.content) THEN Thrown("Empty response from GLM")
    ELSE LET parsed == GlmParse(upstream.content)
         IN  IF parsed.ok THEN GlmShape(parsed.value) ELSE parsed

\* catch (error): a PRAnalysis is returned instead of throwing
GlmCatch_Mut(message) == Reject("AI Analysis failed: " \o message)

GlmCatch(message) == Resolve(FailureAnalysis(message))

\* try { ... } catch { ... } of analyzeBatch, entered with the API key set
GlmRequest(upstream) ==
    LET attempt == GlmTry(upstream)
    IN  IF attempt.ok THEN Resolve(attempt.value) ELSE GlmCatch(attempt.message)

\* analyzeBatch of glmService as a whole
glmAnalyzeBatch(apiKey, upstream) ==
    IF ~apiKey THEN Reject("GLM API Key is missing.") ELSE GlmRequest(upstream)

\* answers of the LLM, as JSON documents
ConformingAnswer ==
    JObj([summary |-> JStr("Adds retry to the client"),
          overallHealth |-> JStr("Good"),
          architecturalImpact |-> JStr("None"),
          contextAlignment |-> JStr("Aligned"),
          keyPoints |-> StrArr(<<"Retry added">>),
          securityConcerns |-> JArr(<<>>),
          performanceTips |-> StrArr(<<"loop optimization">>),
          stats |-> JObj([complexityScore |-> JNum(3),
                          riskLevel |-> JStr("Low"),
                          estimatedReviewMinutes |-> JNum(10),
                          blastRadius |-> JStr("Isolated"),
                          testPresence |-> JStr("Partial"),
                          breakingChange |-> JBool(FALSE)]),
          codeReviewComments |-> JArr(<<>>)])

KpiAnswer(risk) ==
    JObj([managementKPIs |-> JObj([riskLevel |-> JStr(risk),
                                   complexityScore |-> JNum(7)]),
          codeReview |-> JObj([
              summary |-> JStr("Review done"),
              issues |-> JArr(<<JStr("SECURITY hole"), JStr("  "),
                                JStr("Weak Auth check"), JNull>>),
              recommendations |-> JStr("Cache for performance")])])

GlmObjects ==
    {ConformingAnswer,
     JObj([summary |-> JStr("Looks fine"), stats |-> JStr("n/a")]),
     JObj([answer |-> JObj([kpis |-> JObj([blastRadius |-> JStr("Galaxy-wide")])])]),
     JObj([stats |-> JObj([riskLevel |-> JNum(3)])]),
     JObj([message |-> JStr("hello")]),
     JObj([answer |-> JNull]),
     EmptyObj}
        \cup {KpiAnswer(risk) : risk \in {"HIGH", "low", "Critical", "bogus"}}

GlmContents ==
    {TextContent("none", JUndef), TextContent("empty", JUndef),
     TextContent("prose", JUndef), TextContent("broken", JUndef)}
        \cup {TextContent("json", v) :
                  v \in GlmObjects
                      \cup {JNull, JNum(5), JStr("text"), JBool(TRUE), JArr(<<>>)}}
        \cup {TextContent("wrapped", v) : v \in GlmObjects}

\* the ways client.chat.completions.create can end
GlmUpstreams ==
    {[type |-> "reject", message |-> m] : m \in {"Connection error.", ""}}
        \cup {[type |-> "response", content |-> c] : c \in GlmContents}

NoResult == [kind |-> "pending"]

\* analyzeBatch up to the request: the key check, the prompt, the request
GlmCall ==
    /\ gPc = "call"
    /\ IF gApiKey
       THEN gPc' = "awaiting" /\ gResult' = gResult
       ELSE gPc' = "done" /\ gResult' = glmAnalyzeBatch(gApiKey, gUpstream)
    /\ UNCHANGED <<gApiKey, gUpstream>>
    /\ UNCHANGED <<diffVars, appVars, fetchVars, serviceVars, handlerVars, pureVars, formVars>>

\* the request has ended: the rest of the try block, or the catch block
GlmSettle ==
    /\ gPc = "awaiting"
    /\ gResult' = glmAnalyzeBatch(gApiKey, gUpstream)
    /\ gPc' = "done"
    /\ UNCHANGED <<gApiKey, gUpstream>>
    /\ UNCHANGED <<diffVars, appVars, fetchVars, serviceVars, handlerVars, pureVars, formVars>>

GlmNext == GlmCall \/ GlmSettle

----------------------------------------------------------------------------
(* geminiService.analyzeBatch *)

\* the try block: the request, the empty check and JSON.parse(text)
GeminiTry(upstream) ==
    IF upstream.type = "reject" THEN Thrown(upstream.message)
    ELSE IF ContentMissing(upstream.content) THEN Thrown("Empty response from AI")
    ELSE ParseDirect(upstream.content)

\* catch (error): rethrown with a prefix
GeminiCatch(message) ==
    Reject("AI Analysis failed: " \o (IF message # "" THEN message ELSE "Unknown error"))

geminiAnalyzeBatch(apiKey, upstream) ==
    IF ~apiKey THEN Reject("Gemini API Key is missing.")
    ELSE LET attempt == GeminiTry(upstream)
         IN  IF attempt.ok THEN Resolve(attempt.value) ELSE GeminiCatch(attempt.message)

----------------------------------------------------------------------------
(* App: startAnalysis and loadNextBatch *)

\* the size of a batch: changes.slice(0, 10), slice(processedCount, processedCount + 10)
BatchSize == 10

Providers == {"gemini", "glm"}

\* Array.prototype.slice(from, to) with 0 <= from <= to
Slice(seq, from, to) == SubSeq(seq, from + 1, Min(to, Len(seq)))

\* two schema-conforming answers of the AI that differ in every field
BatchAnswer(tag) ==
    JObj([summary |-> JStr("summary " \o tag),
          overallHealth |-> JStr(IF tag = "A" THEN "Good" ELSE "Critical"),
          architecturalImpact |-> JStr("impact " \o tag),
          contextAlignment |-> JStr("alignment " \o tag),
          keyPoints |->
              StrArr(IF tag = "A" THEN <<"key A1", "key A2">> ELSE <<"key B">>),
          securityConcerns |->
              StrArr(IF tag = "A" THEN <<>> ELSE <<"security B">>),
          performanceTips |->
              StrArr(IF tag = "A" THEN <<"tip A">> ELSE <<>>),
          stats |-> JObj([complexityScore |-> JNum(IF tag = "A" THEN 2 ELSE 9),
                          riskLevel |-> JStr(IF tag = "A" THEN "Low" ELSE "High"),
                          estimatedReviewMinutes |-> JNum(15),
                          blastRadius |-> JStr("Isolated"),
                          testPresence |-> JStr("Partial"),
                          breakingChange |-> JBool(tag = "B")]),
          codeReviewComments |->
              JArr(<<JObj([file |-> JStr("file " \o tag),
                           comment |-> JStr("comment " \o tag),
                           severity |-> JStr("low"),
                           type |-> JStr("style")])>>)])

\* the ways the request of the AI provider can end, as seen from App
AppUpstreams ==
    {[type |-> "reject", message |-> "Connection error."]}
        \cup {[type |-> "response", content |-> TextContent("json", BatchAnswer(tag))] :
                 tag \in {"A", "B"}}

\* aiProvider === "glm" ? glmAnalyzeBatch : geminiAnalyzeBatch, applied
analyzeFunction(provider, keys, upstream) ==
    IF provider = "glm"
    THEN glmAnalyzeBatch(keys["glm"], upstream)
    ELSE geminiAnalyzeBatch(keys["gemini"], upstream)

PRInfoOf(status) == JObj([title |-> JStr("PR"), status |-> JStr(status)])

\* useState<AppState>({...})
InitialAppState ==
    [isAnalyzing |-> FALSE, error |-> JNull, prInfo |-> JNull,
     analysis |-> JNull, allChanges |-> <<>>, processedCount |-> 0,
     commitId |-> JNull, params |-> JNull]

\* the state set by startAnalysis before its first request
ResetAppState(params) ==
    [isAnalyzing |-> TRUE, error |-> JNull, prInfo |-> JNull,
     analysis |-> JNull, allChanges |-> <<>>, processedCount |-> 0,
     commitId |-> JNull, params |-> params]

\* MergedList that keeps only the lists of the new batch
MergedList_Mut(prevAnalysis, batchAnalysis, field) ==
    JArr(Items(Prop(batchAnalysis, field)))

\* [...(prev.analysis?.field || []), ...batchAnalysis.field]
MergedList(prevAnalysis, batchAnalysis, field) ==
    JArr(Items(Prop(prevAnalysis, field)) \o Items(Prop(batchAnalysis, field)))

\* the `merged` PRAnalysis of loadNextBatch
MergeAnalysis(prevAnalysis, batchAnalysis) ==
    JObj([summary |-> Prop(batchAnalysis, "summary"),
          overallHealth |-> Prop(batchAnalysis, "overallHealth"),
          architecturalImpact |-> Prop(batchAnalysis, "architecturalImpact"),
          contextAlignment |-> Prop(batchAnalysis, "contextAlignment"),
          stats |-> Prop(batchAnalysis, "stats"),
          keyPoints |-> MergedList(prevAnalysis, batchAnalysis, "keyPoints"),
          securityConcerns |->
              MergedList(prevAnalysis, batchAnalysis, "securityConcerns"),
          performanceTips |->
              MergedList(prevAnalysis, batchAnalysis, "performanceTips"),
          codeReviewComments |->
              MergedList(prevAnalysis, batchAnalysis, "codeReviewComments")])

\* the next value of processedCount after a batch was analysed
AdvancedCount(prevCount, nextBatch) == prevCount + Len(nextBatch)

\* <AnalysisDisplay onLoadNext={loadNextBatch}> is rendered
AnalysisDisplayShown ==
    /\ ~(state.isAnalyzing /\ ~Truthy(state.analysis))
    /\ Truthy(state.analysis)
    /\ Truthy(state.prInfo)
    /\ Truthy(state.params)

\* an invocation of startAnalysis that passed the input checks
StartCall(id, provider, params) ==
    [id |-> id, kind |-> "start", pc |-> "getPRDetails", provider |-> provider,
     params |-> params, prInfo |-> JNull, changes |-> <<>>, from |-> 0,
     batch |-> <<>>]

\* an invocation of loadNextBatch that passed its guard
NextCall(id, provider) ==
    [id |-> id, kind |-> "next", pc |-> "fetchBatchContents",
     provider |-> provider, params |-> state.params, prInfo |-> state.prInfo,
     changes |-> state.allChanges, from |-> state.processedCount,
     batch |-> Slice(state.allChanges, state.processedCount,
                     state.processedCount + BatchSize)]

\* the catch block of startAnalysis
StartFailed(message) ==
    [state EXCEPT !.isAnalyzing = FALSE, !.error = JStr(message)]

\* the catch block of loadNextBatch
BatchFailed(message) ==
    [state EXCEPT !.isAnalyzing = FALSE, !.error = JStr("Batch failed: " \o message)]

\* the provider buttons, disabled while state.isAnalyzing
SetAiProvider(provider) ==
    /\ ~state.isAnalyzing
    /\ provider # aiProvider
    /\ aiProvider' = provider
    /\ UNCHANGED <<state, apiKeys, calls, nCalls, merged, overlapped>>
    /\ UNCHANGED <<diffVars, glmVars, fetchVars, serviceVars, handlerVars, pureVars, formVars>>

\* the URLs typed into the form of App: nothing, a text that is no URL, a
\* pull request URL of dev.azure.com, and a repository URL of visualstudio.com
AppUrls ==
    {[href |-> text, host |-> <<>>, segments |-> <<>>, trailingSlash |-> FALSE] :
        text \in {"", "not a url"}}
    \cup
    {[href |-> "https", host |-> <<"dev", "azure", "com">>,
      segments |-> <<"contoso", "web", "_git", "web", "pullrequest", "42">>,
      trailingSlash |-> FALSE],
     [href |-> "https", host |-> <<"Contoso", "visualstudio", "com">>,
      segments |-> <<"web", "_git", "web">>, trailingSlash |-> FALSE]}

\* startAnalysis returning early: without URL or PAT, or with a URL for which
\* parsePRUrl returns null; the submit button is disabled while
\* state.isAnalyzing
StartAnalysisRefused(url, pat) ==
    /\ ~state.isAnalyzing
    /\ url.href = "" \/ pat = "" \/ ~Truthy(parsePRUrl(url))
    /\ state' = [state EXCEPT !.error =
                    IF url.href = "" \/ pat = ""
                    THEN JStr("Pull Request URL and PAT are required.")
                    ELSE JStr("Invalid Azure DevOps PR URL format.")]
    /\ UNCHANGED <<aiProvider, apiKeys, calls, nCalls, merged, overlapped>>
    /\ UNCHANGED <<diffVars, glmVars, fetchVars, serviceVars, handlerVars, pureVars, formVars>>

\* startAnalysis with a URL and a PAT, parsePRUrl returning params, up to
\* await getPRDetails; a run makes at most `limit` invocations
StartAnalysis(url, pat, limit) ==
    /\ ~state.isAnalyzing
    /\ nCalls < limit
    /\ url.href # "" /\ pat # "" /\ Truthy(parsePRUrl(url))
    /\ state' = ResetAppState(parsePRUrl(url))
    /\ calls' = calls \cup {StartCall(nCalls + 1, aiProvider, parsePRUrl(url))}
    /\ nCalls' = nCalls + 1
    /\ merged' = <<>>
    /\ UNCHANGED <<aiProvider, apiKeys, overlapped>>
    /\ UNCHANGED <<diffVars, glmVars, fetchVars, serviceVars, handlerVars, pureVars, formVars>>

\* getPRDetails rejected
StartDetailsFailed(c) ==
    /\ c.kind = "start" /\ c.pc = "getPRDetails"
    /\ state' = StartFailed("Unauthorized: Invalid PAT or insufficient permissions.")
    /\ calls' = calls \ {c}
    /\ UNCHANGED <<aiProvider, apiKeys, nCalls, merged, overlapped>>
    /\ UNCHANGED <<diffVars, glmVars, fetchVars, serviceVars, handlerVars, pureVars, formVars>>

\* getPRDetails resolved with a pull request of the given status; Azure
\* DevOps has no pull request for params without a pullRequestId
StartDetailsLoaded(c, status) ==
    /\ c.kind = "start" /\ c.pc = "getPRDetails"
    /\ Truthy(Prop(c.params, "pullRequestId"))
    /\ IF ToLowerCase(status) = "abandoned"
       THEN /\ state' = [state EXCEPT !.isAnalyzing = FALSE,
                                      !.error = JStr("This PR is abandoned.")]
            /\ calls' = calls \ {c}
       ELSE /\ state' = state
            /\ calls' = (calls \ {c}) \cup
                   {[c EXCEPT !.pc = "getPRMetadata", !.prInfo = PRInfoOf(status)]}
    /\ UNCHANGED <<aiProvider, apiKeys, nCalls, merged, overlapped>>
    /\ UNCHANGED <<diffVars, glmVars, fetchVars, serviceVars, handlerVars, pureVars, formVars>>

\* getPRMetadata rejected
StartMetadataFailed(c) ==
    /\ c.kind = "start" /\ c.pc = "getPRMetadata"
    /\ state' = StartFailed("Azure DevOps Error (500): Server Error")
    /\ calls' = calls \ {c}
    /\ UNCHANGED <<aiProvider, apiKeys, nCalls, merged, overlapped>>
    /\ UNCHANGED <<diffVars, glmVars, fetchVars, serviceVars, handlerVars, pureVars, formVars>>

\* getPRMetadata resolved with n changes
StartMetadataLoaded(c, n) ==
    /\ c.kind = "start" /\ c.pc = "getPRMetadata"
    /\ IF n = 0
       THEN /\ state' = StartFailed("No changes found.")
            /\ calls' = calls \ {c}
       ELSE /\ state' = state
            /\ calls' = (calls \ {c}) \cup
                   {[c EXCEPT !.pc = "fetchBatchContents",
                              !.changes = [k \in 1..n |-> k],
                              !.batch = Slice([k \in 1..n |-> k], 0, BatchSize)]}
    /\ UNCHANGED <<aiProvider, apiKeys, nCalls, merged, overlapped>>
    /\ UNCHANGED <<diffVars, glmVars, fetchVars, serviceVars, handlerVars, pureVars, formVars>>

\* fetchBatchContents resolved, in startAnalysis or in loadNextBatch
BatchContentsFetched(c) ==
    /\ c.pc = "fetchBatchContents"
    /\ calls' = (calls \ {c}) \cup {[c EXCEPT !.pc = "analyze"]}
    /\ UNCHANGED <<state, aiProvider, apiKeys, nCalls, merged, overlapped>>
    /\ UNCHANGED <<diffVars, glmVars, fetchVars, serviceVars, handlerVars, pureVars, formVars>>

\* the AI call of startAnalysis settled
StartAnalyzed(c, upstream) ==
    /\ c.kind = "start" /\ c.pc = "analyze"
    /\ LET result == analyzeFunction(c.provider, apiKeys, upstream)
       IN  IF result.kind = "reject"
           THEN /\ state' = StartFailed(result.message)
                /\ merged' = merged
           ELSE /\ state' = [state EXCEPT !.isAnalyzing = FALSE,
                                          !.error = JNull,
                                          !.prInfo = c.prInfo,
                                          !.analysis = result.value,
                                          !.allChanges = c.changes,
                                          !.processedCount = Len(c.batch),
                                          !.commitId = JStr("commit")]
                /\ merged' = <<[from |-> 0, batch |-> c.batch,
                                analysis |-> result.value]>>
    /\ calls' = calls \ {c}
    /\ UNCHANGED <<aiProvider, apiKeys, nCalls, overlapped>>
    /\ UNCHANGED <<diffVars, glmVars, fetchVars, serviceVars, handlerVars, pureVars, formVars>>

\* loadNextBatch up to await fetchBatchContents; it is reachable through
\* AnalysisDisplay's onLoadNext and returns early without prInfo, changes or
\* params; a run makes at most `limit` invocations
LoadNextBatch(limit) ==
    /\ AnalysisDisplayShown
    /\ Truthy(state.prInfo) /\ Len(state.allChanges) # 0 /\ Truthy(state.params)
    /\ nCalls < limit
    /\ state' = [state EXCEPT !.isAnalyzing = TRUE]
    /\ calls' = calls \cup {NextCall(nCalls + 1, aiProvider)}
    /\ nCalls' = nCalls + 1
    /\ overlapped' = (overlapped \/ calls # {})
    /\ UNCHANGED <<aiProvider, apiKeys, merged>>
    /\ UNCHANGED <<diffVars, glmVars, fetchVars, serviceVars, handlerVars, pureVars, formVars>>

\* the AI call of loadNextBatch settled
NextAnalyzed(c, upstream) ==
    /\ c.kind = "next" /\ c.pc = "analyze"
    /\ LET result == analyzeFunction(c.provider, apiKeys, upstream)
       IN  IF result.kind = "reject"
           THEN /\ state' = BatchFailed(result.message)
                /\ merged' = merged
           ELSE /\ state' = [state EXCEPT
                       !.isAnalyzing = FALSE,
                       !.analysis = MergeAnalysis(state.analysis, result.value),
                       !.processedCount = AdvancedCount(state.processedCount, c.batch)]
                /\ merged' = Append(merged, [from |-> c.from, batch |-> c.batch,
                                             analysis |-> result.value])
    /\ calls' = calls \ {c}
    /\ UNCHANGED <<aiProvider, apiKeys, nCalls, overlapped>>
    /\ UNCHANGED <<diffVars, glmVars, fetchVars, serviceVars, handlerVars, pureVars, formVars>>

AppNext ==
    \/ \E provider \in Providers : SetAiProvider(provider)
    \/ \E url \in AppUrls : \E pat \in {"", "pat"} : StartAnalysisRefused(url, pat)
    \/ \E url \in AppUrls : \E pat \in {"", "pat"} : StartAnalysis(url, pat, MaxCalls)
    \/ \E c \in calls : StartDetailsFailed(c)
    \/ \E c \in calls : \E status \in {"active", "abandoned", "Abandoned"} : StartDetailsLoaded(c, status)
    \/ \E c \in calls : StartMetadataFailed(c)
    \/ \E c \in calls : \E n \in 0..MaxChanges : StartMetadataLoaded(c, n)
    \/ \E c \in calls : BatchContentsFetched(c)
    \/ \E c \in calls : \E upstream \in AppUpstreams : StartAnalyzed(c, upstream)
    \/ LoadNextBatch(MaxCalls)
    \/ \E c \in calls : \E upstream \in AppUpstreams : NextAnalyzed(c, upstream)

\* the steps of App while it analyses pull requests of BatchSize + 1 changes
\* with both API keys set
OverlapNext ==
    \/ \E url \in AppUrls : StartAnalysis(url, "pat", MaxOverlapCalls)
    \/ \E c \in calls : \E status \in {"active", "Abandoned"} : StartDetailsLoaded(c, status)
    \/ \E c \in calls : StartMetadataLoaded(c, BatchSize + 1)
    \/ \E c \in calls : BatchContentsFetched(c)
    \/ \E c \in calls : \E upstream \in AppUpstreams : StartAnalyzed(c, upstream)
    \/ LoadNextBatch(MaxOverlapCalls)
    \/ \E c \in calls : \E upstream \in AppUpstreams : NextAnalyzed(c, upstream)

----------------------------------------------------------------------------
(* azureDevOpsService.fetchBatchContents *)

\* the length above which a content is cut: content.length > 20000
ContentLimit == 20000

\* the entries of a change list, as the Azure DevOps API returns them: with
\* item.path, with path, with a string item, deleted, and without a path
ChangeEntries ==
    {JObj([item |-> JObj([path |-> JStr("/src/a.ts")]), changeType |-> JStr("edit")]),
     JObj([path |-> JStr("/src/b.ts")]),
     JObj([item |-> JStr("/src/c.ts"), changeType |-> JStr("add")]),
     JObj([item |-> JObj([path |-> JStr("/src/d.ts")]), changeType |-> JStr("Delete")]),
     JObj([changeType |-> JStr("edit"), item |-> JObj([url |-> JStr("u")])])}

\* change.item?.path || change.path ||
\* (change.item && typeof change.item === "string" ? change.item : null)
PathOf(change) ==
    OrElse(Prop(Prop(change, "item"), "path"),
           OrElse(Prop(change, "path"),
                  IF Truthy(Prop(change, "item")) /\ Prop(change, "item").t = "str"
                  THEN Prop(change, "item")
                  ELSE JNull))

\* change.changeType || "edit"
ChangeTypeOf(change) == OrElse(Prop(change, "changeType"), JStr("edit"))

\* skipTypes.includes(changeType.toLowerCase())
IsSkipped(change) == ToLowerCase(ChangeTypeOf(change).v) \in {"delete", "none"}

\* the FileDiff returned for a change with a path
FileDiffOf(change, content) ==
    JObj([path |-> PathOf(change),
          changeType |-> ChangeTypeOf(change),
          content |-> JStr(content),
          originalPath |-> OrElse(Prop(change, "sourceServerItem"),
                                  Prop(change, "originalPath"))])

\* the ways the request of one file can end
FileOutcomes == {"ok", "not ok", "throws"}

\* the text the server holds for a path
TextAt(path) == "text of " \o path.v

\* res.text() of the response to the request of a path, with its length and
\* whether it holds a NUL character: the server holds a binary file at
\* /src/b.ts, a text of ContentLimit + 1 characters at /src/c.ts and texts
\* of exactly ContentLimit characters elsewhere
ResponseText(path) ==
    [text |-> TextAt(path),
     nul |-> path.v = "/src/b.ts",
     length |-> IF path.v = "/src/c.ts" THEN ContentLimit + 1 ELSE ContentLimit]

\* content.substring(0, 20000) of a longer text
Substring(text, end) == text \o "[0.." \o ToString(end) \o ")"

\* `content` without the cut of a long text
ContentAfter_Mut(change, outcome) ==
    CASE outcome = "ok"     ->
             IF ResponseText(PathOf(change)).nul
             THEN "[Binary File - Skipping analysis]"
             ELSE ResponseText(PathOf(change)).text
      [] outcome = "not ok" -> ""
      [] outcome = "throws" -> "[Error fetching content]"

\* `content` after the request of a file ended
ContentAfter(change, outcome) ==
    CASE outcome = "ok"     ->
             LET body == ResponseText(PathOf(change)) IN
             IF body.nul
             THEN "[Binary File - Skipping analysis]"
             ELSE IF body.length > ContentLimit
             THEN Substring(body.text, ContentLimit) \o "\n... [TRUNCATED]"
             ELSE body.text
      [] outcome = "not ok" -> ""
      [] outcome = "throws" -> "[Error fetching content]"

\* the callbacks that settle without a request, in the order of the map
SettledAtOnce(changes) ==
    LET at(i) == IF ~Truthy(PathOf(changes[i]))
                 THEN <<[index |-> i, value |-> JNull]>>
                 ELSE IF IsSkipped(changes[i])
                 THEN <<[index |-> i, value |-> FileDiffOf(changes[i], "")]>>
                 ELSE <<>>
    IN  Concat([i \in 1..Len(changes) |-> at(i)])

\* the indexes of the changes whose content is requested
Requested(changes) ==
    {i \in 1..Len(changes) : Truthy(PathOf(changes[i])) /\ ~IsSkipped(changes[i])}

\* the array built in order of completion instead of input position
PromiseAll_Mut(settled) == [k \in 1..Len(settled) |-> settled[k].value]

\* Promise.all: the settled values in the order of the input promises
PromiseAll(settled) ==
    [i \in 1..Len(settled) |->
        (CHOOSE e \in {settled[k] : k \in 1..Len(settled)} : e.index = i).value]

\* .then((res) => res.filter((f) => f !== null))
FilterFileDiffs(res) == SelectSeq(res, LAMBDA f : f # JNull)

\* fetchBatchContents is called: changes.map runs every callback up to its
\* first await, which sends the requests
FetchBatchContents ==
    /\ fPc = "call"
    /\ fRequests' = Requested(fChanges)
    /\ fSettled' = SettledAtOnce(fChanges)
    /\ fPc' = "awaiting"
    /\ UNCHANGED <<fChanges, fResult>>
    /\ UNCHANGED <<diffVars, glmVars, appVars, serviceVars, handlerVars, pureVars, formVars>>

\* the request of the file at index i ended, and its callback returned
FileRequestEnded(i, outcome) ==
    /\ fPc = "awaiting"
    /\ i \in fRequests
    /\ \A k \in 1..Len(fSettled) : fSettled[k].index # i
    /\ fSettled' = Append(fSettled,
                          [index |-> i,
                           value |-> FileDiffOf(fChanges[i],
                                                ContentAfter(fChanges[i], outcome))])
    /\ UNCHANGED <<fChanges, fRequests, fPc, fResult>>
    /\ UNCHANGED <<diffVars, glmVars, appVars, serviceVars, handlerVars, pureVars, formVars>>

\* every callback has returned: Promise.all resolves and the list is filtered
FetchBatchResolved ==
    /\ fPc = "awaiting"
    /\ Len(fSettled) = Len(fChanges)
    /\ fResult' = FilterFileDiffs(PromiseAll(fSettled))
    /\ fPc' = "done"
    /\ UNCHANGED <<fChanges, fRequests, fSettled>>
    /\ UNCHANGED <<diffVars, glmVars, appVars, serviceVars, handlerVars, pureVars, formVars>>

FetchNext ==
    \/ FetchBatchContents
    \/ \E i \in fRequests : \E outcome \in FileOutcomes :
           FileRequestEnded(i, outcome)
    \/ FetchBatchResolved

----------------------------------------------------------------------------
(* prReviewService.getPRFileDiffs and azureDevOpsService.getPRMetadata *)

\* the endpoints of one pull request
ChangesUrl == <<"pullRequests/{id}/changes">>
IterationsUrl == <<"pullRequests/{id}/iterations">>
IterationChangesUrl == <<"pullRequests/{id}/iterations/{latest}/changes">>
ItemUrl(path, commit) == <<"items", path, commit>>

\* a request of fetchWithAuth that rejected
Failed(url) == [url |-> url, outcome |-> "failed"]

\* a request answered with a list of n entries
Answered(url, n) ==
    [url |-> url, outcome |-> IF n = 0 THEN "no data" ELSE "data"]

\* a list of n changes; change k stands for the k-th changed path
ChangeList(n) == [k \in 1..n |-> k]

\* getPRFiles: the `changes` endpoint, mapped to path and change type
getPRFilesUrl == ChangesUrl

\* the entry returned for a file of the basic file list
BasicFile(change) ==
    [path |-> change, sourceContent |-> "", targetContent |-> ""]

\* getPRFileDiffs, first step: the request of the PR changes ended; the
\* entries of the answer carry their commit ids or none does
DiffsChangesEnded(failed, n, commits) ==
    /\ sOp = "getPRFileDiffs" /\ sPc = "call"
    /\ sLog' = Append(sLog, IF failed THEN Failed(ChangesUrl)
                                      ELSE Answered(ChangesUrl, n))
    /\ sChanges' = IF failed THEN <<>> ELSE ChangeList(n)
    /\ sCommits' = (~failed /\ n > 0 /\ commits)
    /\ sPc' = IF Len(sChanges') = 0 THEN "iterations" ELSE "contents"
    /\ UNCHANGED <<sOp, sFiles, sResult>>
    /\ UNCHANGED <<diffVars, glmVars, appVars, fetchVars, handlerVars, pureVars, formVars>>

\* getLatestIterationChanges: the request of the iterations ended
DiffsIterationsEnded(failed, n) ==
    /\ sOp = "getPRFileDiffs" /\ sPc = "iterations"
    /\ sLog' = Append(sLog, IF failed THEN Failed(IterationsUrl)
                                      ELSE Answered(IterationsUrl, n))
    /\ sPc' = IF failed \/ n = 0 THEN "basic list" ELSE "iteration changes"
    /\ UNCHANGED <<sOp, sChanges, sCommits, sFiles, sResult>>
    /\ UNCHANGED <<diffVars, glmVars, appVars, fetchVars, handlerVars, pureVars, formVars>>

\* getLatestIterationChanges: the request of the latest iteration's changes ended
DiffsIterationChangesEnded(failed, n, commits) ==
    /\ sOp = "getPRFileDiffs" /\ sPc = "iteration changes"
    /\ sLog' = Append(sLog, IF failed THEN Failed(IterationChangesUrl)
                                      ELSE Answered(IterationChangesUrl, n))
    /\ sChanges' = IF failed THEN <<>> ELSE ChangeList(n)
    /\ sCommits' = (~failed /\ commits)
    /\ sPc' = IF Len(sChanges') = 0 THEN "basic list" ELSE "contents"
    /\ UNCHANGED <<sOp, sFiles, sResult>>
    /\ UNCHANGED <<diffVars, glmVars, appVars, fetchVars, handlerVars, pureVars, formVars>>

\* the fallback without its catch block
DiffsBasicListEnded_Mut(failed, n) ==
    /\ sOp = "getPRFileDiffs" /\ sPc = "basic list"
    /\ sLog' = Append(sLog, IF failed THEN Failed(getPRFilesUrl)
                                      ELSE Answered(getPRFilesUrl, n))
    /\ sResult' = IF failed THEN Reject("Azure DevOps Error (500): Server Error")
                  ELSE Resolve([k \in 1..n |-> BasicFile(ChangeList(n)[k])])
    /\ sPc' = "done"
    /\ UNCHANGED <<sOp, sChanges, sCommits, sFiles>>
    /\ UNCHANGED <<diffVars, glmVars, appVars, fetchVars, handlerVars, pureVars, formVars>>

\* the fallback to getPRFiles: its request ended, and getPRFileDiffs returns
DiffsBasicListEnded(failed, n) ==
    /\ sOp = "getPRFileDiffs" /\ sPc = "basic list"
    /\ sLog' = Append(sLog, IF failed THEN Failed(getPRFilesUrl)
                                      ELSE Answered(getPRFilesUrl, n))
    /\ sResult' = IF failed THEN Resolve(<<>>)
                  ELSE Resolve([k \in 1..n |-> BasicFile(ChangeList(n)[k])])
    /\ sPc' = "done"
    /\ UNCHANGED <<sOp, sChanges, sCommits, sFiles>>
    /\ UNCHANGED <<diffVars, glmVars, appVars, fetchVars, handlerVars, pureVars, formVars>>

\* the content a response leaves in sourceContent / targetContent
FetchedContent(outcome, path, commit) ==
    IF outcome = "ok" THEN <<"text", path, commit>> ELSE ""

\* the callback of the content stage for one change has returned: the
\* source is requested, then the target, each only with a commit id; a
\* request that throws ends the callback's try block
DiffsFileEnded(i, source, target) ==
    /\ sOp = "getPRFileDiffs" /\ sPc = "contents"
    /\ i \in 1..Len(sChanges)
    /\ \A k \in 1..Len(sFiles) : sFiles[k].index # i
    /\ sLog' = sLog \o
           (IF sCommits
            THEN <<[url |-> ItemUrl(sChanges[i], "source commit"), outcome |-> source]>> \o
                 (IF source = "throws" THEN <<>>
                  ELSE <<[url |-> ItemUrl(sChanges[i], "target commit"),
                          outcome |-> target]>>)
            ELSE <<>>)
    /\ sFiles' = Append(sFiles,
           [index |-> i,
            value |-> [path |-> sChanges[i],
                       sourceContent |->
                           IF sCommits
                           THEN FetchedContent(source, sChanges[i], "source commit")
                           ELSE "",
                       targetContent |->
                           IF sCommits /\ source # "throws"
                           THEN FetchedContent(target, sChanges[i], "target commit")
                           ELSE ""]])
    /\ UNCHANGED <<sOp, sPc, sChanges, sCommits, sResult>>
    /\ UNCHANGED <<diffVars, glmVars, appVars, fetchVars, handlerVars, pureVars, formVars>>

\* every callback of the content stage has returned: getPRFileDiffs returns
DiffsContentsFetched ==
    /\ sOp = "getPRFileDiffs" /\ sPc = "contents"
    /\ Len(sFiles) = Len(sChanges)
    /\ sResult' = Resolve(PromiseAll(sFiles))
    /\ sPc' = "done"
    /\ UNCHANGED <<sOp, sLog, sChanges, sCommits, sFiles>>
    /\ UNCHANGED <<diffVars, glmVars, appVars, fetchVars, handlerVars, pureVars, formVars>>

\* the value getPRMetadata returns
Metadata(commits, changes) ==
    [commitId |-> IF commits THEN "source commit" ELSE "null", changes |-> changes]

\* getPRMetadata: the request of the iterations ended
MetaIterationsEnded(failed, n, commits) ==
    /\ sOp = "getPRMetadata" /\ sPc = "call"
    /\ sLog' = Append(sLog, IF failed THEN Failed(IterationsUrl)
                                      ELSE Answered(IterationsUrl, n))
    /\ sCommits' = (~failed /\ n > 0 /\ commits)
    /\ sPc' = IF failed \/ n = 0 THEN "changes" ELSE "iteration changes"
    /\ UNCHANGED <<sOp, sChanges, sFiles, sResult>>
    /\ UNCHANGED <<diffVars, glmVars, appVars, fetchVars, handlerVars, pureVars, formVars>>

\* getPRMetadata: the request of the latest iteration's changes ended
MetaIterationChangesEnded(failed, n) ==
    /\ sOp = "getPRMetadata" /\ sPc = "iteration changes"
    /\ sLog' = Append(sLog, IF failed THEN Failed(IterationChangesUrl)
                                      ELSE Answered(IterationChangesUrl, n))
    /\ sChanges' = IF failed THEN <<>> ELSE ChangeList(n)
    /\ IF Len(sChanges') = 0
       THEN sPc' = "changes" /\ sResult' = sResult
       ELSE sPc' = "done" /\ sResult' = Resolve(Metadata(sCommits, sChanges'))
    /\ UNCHANGED <<sOp, sCommits, sFiles>>
    /\ UNCHANGED <<diffVars, glmVars, appVars, fetchVars, handlerVars, pureVars, formVars>>

\* getPRMetadata: the request of the PR changes ended; its failure is not caught
MetaChangesEnded(failed, n) ==
    /\ sOp = "getPRMetadata" /\ sPc = "changes"
    /\ sLog' = Append(sLog, IF failed THEN Failed(ChangesUrl)
                                      ELSE Answered(ChangesUrl, n))
    /\ sChanges' = IF failed THEN sChanges ELSE ChangeList(n)
    /\ sResult' = IF failed THEN Reject("Azure DevOps Error (500): Server Error")
                  ELSE Resolve(Metadata(sCommits, ChangeList(n)))
    /\ sPc' = "done"
    /\ UNCHANGED <<sOp, sCommits, sFiles>>
    /\ UNCHANGED <<diffVars, glmVars, appVars, fetchVars, handlerVars, pureVars, formVars>>

ServiceNext ==
    \/ \E failed \in BOOLEAN, n \in 0..MaxFiles, commits \in BOOLEAN :
           DiffsChangesEnded(failed, n, commits)
    \/ \E failed \in BOOLEAN, n \in 0..MaxFiles : DiffsIterationsEnded(failed, n)
    \/ \E failed \in BOOLEAN, n \in 0..MaxFiles, commits \in BOOLEAN :
           DiffsIterationChangesEnded(failed, n, commits)
    \/ \E failed \in BOOLEAN, n \in 0..MaxFiles : DiffsBasicListEnded(failed, n)
    \/ \E i \in 1..MaxFiles, source \in FileOutcomes, target \in FileOutcomes :
           DiffsFileEnded(i, source, target)
    \/ DiffsContentsFetched
    \/ \E failed \in BOOLEAN, n \in 0..MaxFiles, commits \in BOOLEAN :
           MetaIterationsEnded(failed, n, commits)
    \/ \E failed \in BOOLEAN, n \in 0..MaxFiles : MetaIterationChangesEnded(failed, n)
    \/ \E failed \in BOOLEAN, n \in 0..MaxFiles : MetaChangesEnded(failed, n)

----------------------------------------------------------------------------
(* The user-triggered operations and their error handling *)

\* the analyzeBatch a provider selects
AnalyzeCall(provider) ==
    IF provider = "glm" THEN "glmAnalyzeBatch" ELSE "geminiAnalyzeBatch"

\* App.startAnalysis: four awaits; the catch block sets state.error
App_startAnalysis(provider) ==
    [component |-> "App", name |-> "startAnalysis",
     calls |-> <<{"getPRDetails"}, {"getPRMetadata"}, {"fetchBatchContents"},
                 {AnalyzeCall(provider)}>>,
     flag |-> TRUE, clearsError |-> TRUE, catch |-> "setState error",
     prefix |-> "", default |-> "", suffix |-> ""]

\* App.loadNextBatch: two awaits; the catch block sets state.error
App_loadNextBatch(provider) ==
    [component |-> "App", name |-> "loadNextBatch",
     calls |-> <<{"fetchBatchContents"}, {AnalyzeCall(provider)}>>,
     flag |-> TRUE, clearsError |-> FALSE, catch |-> "setState error",
     prefix |-> "Batch failed: ", default |-> "", suffix |-> ""]

PRCreationForm_handleSubmit ==
    [component |-> "PRCreationForm", name |-> "handleSubmit",
     calls |-> <<{"createPR"}>>,
     flag |-> TRUE, clearsError |-> TRUE, catch |-> "setState error",
     prefix |-> "", default |-> "Failed to create PR.", suffix |-> ""]

PRReviewForm_loadReviewDetails ==
    [component |-> "PRReviewForm", name |-> "loadReviewDetails",
     calls |-> <<{"getPRReviewDetails"}>>,
     flag |-> TRUE, clearsError |-> TRUE, catch |-> "setState error",
     prefix |-> "", default |-> "Failed to load PR details.", suffix |-> ""]

PRReviewForm_handleVote ==
    [component |-> "PRReviewForm", name |-> "handleVote",
     calls |-> <<{"submitPRVote"}, {"getPRReviewDetails"}>>,
     flag |-> TRUE, clearsError |-> FALSE, catch |-> "setState error",
     prefix |-> "", default |-> "Failed to submit vote.", suffix |-> ""]

PRReviewForm_handleAddComment ==
    [component |-> "PRReviewForm", name |-> "handleAddComment",
     calls |-> <<{"createPRComment"}, {"getPRReviewDetails"}>>,
     flag |-> TRUE, clearsError |-> FALSE, catch |-> "setState error",
     prefix |-> "", default |-> "Failed to add comment.", suffix |-> ""]

PRReviewForm_handleReply ==
    [component |-> "PRReviewForm", name |-> "handleReply",
     calls |-> <<{"replyToPRComment"}, {"getPRReviewDetails"}>>,
     flag |-> FALSE, clearsError |-> FALSE, catch |-> "setState error",
     prefix |-> "", default |-> "Failed to reply to comment.", suffix |-> ""]

PRReviewForm_handleUpdateThreadStatus ==
    [component |-> "PRReviewForm", name |-> "handleUpdateThreadStatus",
     calls |-> <<{"updateThreadStatus"}, {"getPRReviewDetails"}>>,
     flag |-> FALSE, clearsError |-> FALSE, catch |-> "setState error",
     prefix |-> "", default |-> "Failed to update thread status.", suffix |-> ""]

\* PRReviewAnalysis.loadPRDetails: one await of Promise.all over two calls;
\* the catch block shows an alert
PRReviewAnalysis_loadPRDetails ==
    [component |-> "PRReviewAnalysis", name |-> "loadPRDetails",
     calls |-> <<{"getPRReviewDetails", "getPRFileDiffs"}>>,
     flag |-> FALSE, clearsError |-> FALSE, catch |-> "alert",
     prefix |-> "Failed to load PR details: ", default |-> "",
     suffix |-> ". Please check your PAT and PR URL."]

\* PRReviewAnalysis.analyzeFileChanges: the catch block logs to the console
PRReviewAnalysis_analyzeFileChanges(provider) ==
    [component |-> "PRReviewAnalysis", name |-> "analyzeFileChanges",
     calls |-> <<{AnalyzeCall(provider)}>>,
     flag |-> TRUE, clearsError |-> FALSE, catch |-> "console.error",
     prefix |-> "", default |-> "", suffix |-> ""]

PRReviewAnalysis_handleUpdateThreadStatus ==
    [component |-> "PRReviewAnalysis", name |-> "handleUpdateThreadStatus",
     calls |-> <<{"updateThreadStatus"}, {"getPRReviewDetails"}>>,
     flag |-> FALSE, clearsError |-> FALSE, catch |-> "console.error",
     prefix |-> "", default |-> "", suffix |-> ""]

PRReviewAnalysis_handleVote ==
    [component |-> "PRReviewAnalysis", name |-> "handleVote",
     calls |-> <<{"submitPRVote"}, {"getPRReviewDetails"}>>,
     flag |-> TRUE, clearsError |-> FALSE, catch |-> "console.error",
     prefix |-> "", default |-> "", suffix |-> ""]

PRReviewAnalysis_handleAddComment ==
    [component |-> "PRReviewAnalysis", name |-> "handleAddComment",
     calls |-> <<{"createPRComment"}, {"getPRReviewDetails"}>>,
     flag |-> TRUE, clearsError |-> FALSE, catch |-> "console.error",
     prefix |-> "", default |-> "", suffix |-> ""]

PRReviewAnalysis_handleReply ==
    [component |-> "PRReviewAnalysis", name |-> "handleReply",
     calls |-> <<{"replyToPRComment"}, {"getPRReviewDetails"}>>,
     flag |-> FALSE, clearsError |-> FALSE, catch |-> "console.error",
     prefix |-> "", default |-> "", suffix |-> ""]

Handlers ==
    {App_startAnalysis(provider) : provider \in Providers}
        \cup {App_loadNextBatch(provider) : provider \in Providers}
        \cup {PRReviewAnalysis_analyzeFileChanges(provider) : provider \in Providers}
        \cup {PRCreationForm_handleSubmit, PRReviewForm_loadReviewDetails,
              PRReviewForm_handleVote, PRReviewForm_handleAddComment,
              PRReviewForm_handleReply, PRReviewForm_handleUpdateThreadStatus,
              PRReviewAnalysis_loadPRDetails,
              PRReviewAnalysis_handleUpdateThreadStatus,
              PRReviewAnalysis_handleVote, PRReviewAnalysis_handleAddComment,
              PRReviewAnalysis_handleReply}

\* the service calls that answer an upstream failure with their fallback
\* object: getPRFileDiffs with [], fetchBatchContents without the file,
\* the GLM analyzeBatch with its failure report
FallingBack == {"getPRFileDiffs", "fetchBatchContents", "glmAnalyzeBatch"}

\* the messages of the errors an upstream failure raises: fetchWithAuth on
\* a 401 response, fetch on a network failure
UpstreamMessages ==
    {"Unauthorized: Invalid PAT or insufficient permissions.", "Failed to fetch"}

\* the message of the error a service call rejects with
RejectionOf(call, message) ==
    IF call = "geminiAnalyzeBatch"
    THEN "AI Analysis failed: " \o (IF message # "" THEN message ELSE "Unknown error")
    ELSE message

\* the text a catch block puts together from the error
ErrorText(h, message) ==
    h.prefix \o (IF message = "" THEN h.default ELSE message) \o h.suffix

\* the user triggers the operation with its inputs filled in: the handler
\* runs up to its first await
Invoke ==
    /\ hPc = "ready"
    /\ hPc' = "awaiting"
    /\ hStep' = 1
    /\ hPending' = hHandler.calls[1]
    /\ hBusy' = hHandler.flag
    /\ hError' = IF hHandler.clearsError THEN "null" ELSE hError
    /\ UNCHANGED <<hHandler, hAlert, hFailure, hFallback>>
    /\ UNCHANGED <<diffVars, glmVars, appVars, fetchVars, serviceVars, pureVars, formVars>>

\* the handler after a call of its current await returned: it goes on to
\* the next await, or past the try block
Continue(pending) ==
    IF pending # {}
    THEN /\ hPending' = pending
         /\ UNCHANGED <<hPc, hStep, hBusy>>
    ELSE IF hStep < Len(hHandler.calls)
    THEN /\ hStep' = hStep + 1
         /\ hPending' = hHandler.calls[hStep + 1]
         /\ UNCHANGED <<hPc, hBusy>>
    ELSE /\ hPc' = "done"
         /\ hPending' = {}
         /\ hBusy' = FALSE
         /\ UNCHANGED hStep

\* an upstream call succeeded
CallResolved(call) ==
    /\ hPc = "awaiting" /\ call \in hPending
    /\ Continue(hPending \ {call})
    /\ UNCHANGED <<hHandler, hError, hAlert, hFailure, hFallback>>
    /\ UNCHANGED <<diffVars, glmVars, appVars, fetchVars, serviceVars, pureVars, formVars>>

\* the upstream failed inside a service call that catches the failure and
\* returns its fallback object
CallFellBack(call, message) ==
    /\ hPc = "awaiting" /\ call \in hPending \cap FallingBack
    /\ hFailure' = message
    /\ hFallback' = TRUE
    /\ Continue(hPending \ {call})
    /\ UNCHANGED <<hHandler, hError, hAlert>>
    /\ UNCHANGED <<diffVars, glmVars, appVars, fetchVars, serviceVars, pureVars, formVars>>

\* the catch block without the reset of the busy flag
CallRejected_Mut(call, message) ==
    /\ hPc = "awaiting" /\ call \in hPending \ FallingBack
    /\ hFailure' = message
    /\ hError' = IF hHandler.catch = "setState error"
                 THEN ErrorText(hHandler, RejectionOf(call, message))
                 ELSE hError
    /\ hAlert' = IF hHandler.catch = "alert"
                 THEN ErrorText(hHandler, RejectionOf(call, message))
                 ELSE hAlert
    /\ hPc' = "done"
    /\ hPending' = {}
    /\ UNCHANGED <<hHandler, hStep, hBusy, hFallback>>
    /\ UNCHANGED <<diffVars, glmVars, appVars, fetchVars, serviceVars, pureVars, formVars>>

\* the upstream failed and the service call rejected: the handler's catch
\* block runs, then its finally block
CallRejected(call, message) ==
    /\ hPc = "awaiting" /\ call \in hPending \ FallingBack
    /\ hFailure' = message
    /\ hError' = IF hHandler.catch = "setState error"
                 THEN ErrorText(hHandler, RejectionOf(call, message))
                 ELSE hError
    /\ hAlert' = IF hHandler.catch = "alert"
                 THEN ErrorText(hHandler, RejectionOf(call, message))
                 ELSE hAlert
    /\ hPc' = "done"
    /\ hPending' = {}
    /\ hBusy' = FALSE
    /\ UNCHANGED <<hHandler, hStep, hFallback>>
    /\ UNCHANGED <<diffVars, glmVars, appVars, fetchVars, serviceVars, pureVars, formVars>>

\* the service calls the operations await
ServiceCalls ==
    {"getPRDetails", "getPRMetadata", "fetchBatchContents", "glmAnalyzeBatch",
     "geminiAnalyzeBatch", "createPR", "getPRReviewDetails", "getPRFileDiffs",
     "submitPRVote", "createPRComment", "replyToPRComment", "updateThreadStatus"}

HandlerNext ==
    \/ Invoke
    \/ \E call \in ServiceCalls : CallResolved(call)
    \/ \E call \in ServiceCalls, message \in UpstreamMessages :
           CallFellBack(call, message)
    \/ \E call \in ServiceCalls, message \in UpstreamMessages :
           CallRejected(call, message)

----------------------------------------------------------------------------
(* PRCreationForm.generateTitleFromBranch *)

\* generateTitleFromBranch that replaces the first '-' of the description only
generateTitleFromBranch_Mut(sourceBranch, title) ==
    IF sourceBranch = <<>> THEN title
    ELSE LET slashes == {i \in 1..Len(sourceBranch) : sourceBranch[i] = "/"}
             branchName ==
                 IF slashes = {} THEN sourceBranch
                 ELSE SubSeq(sourceBranch,
                             (CHOOSE i \in slashes : \A j \in slashes : j <= i) + 1,
                             Len(sourceBranch))
             digits == CHOOSE k \in 0..Len(branchName) :
                           /\ \A i \in 1..k : branchName[i] \in {"4", "7"}
                           /\ k = Len(branchName) \/ branchName[k + 1] \notin {"4", "7"}
             ticketMatch == /\ digits >= 1
                            /\ Len(branchName) >= digits + 2
                            /\ branchName[digits + 1] = "-"
             ticket == SubSeq(branchName, 1, digits)
             rest == SubSeq(branchName, digits + 2, Len(branchName))
             dashes == {i \in 1..Len(rest) : rest[i] = "-"}
             desc == [i \in 1..Len(rest) |->
                         IF i \in dashes /\ \A j \in dashes : i <= j
                         THEN " " ELSE rest[i]]
         IN  IF ticketMatch
             THEN ticket \o <<":", " ">> \o desc
             ELSE <<"P", "R", " ", "f", "r", "o", "m", " ">> \o sourceBranch

\* generateTitleFromBranch: the title it leaves in the form, texts being
\* sequences of characters; branchName.match(/^(\d+)-(.+)$/) succeeds when
\* the leading digits are followed by '-' and at least one more character
generateTitleFromBranch(sourceBranch, title) ==
    IF sourceBranch = <<>> THEN title
    ELSE LET slashes == {i \in 1..Len(sourceBranch) : sourceBranch[i] = "/"}
             branchName ==
                 IF slashes = {} THEN sourceBranch
                 ELSE SubSeq(sourceBranch,
                             (CHOOSE i \in slashes : \A j \in slashes : j <= i) + 1,
                             Len(sourceBranch))
             digits == CHOOSE k \in 0..Len(branchName) :
                           /\ \A i \in 1..k : branchName[i] \in {"4", "7"}
                           /\ k = Len(branchName) \/ branchName[k + 1] \notin {"4", "7"}
             ticketMatch == /\ digits >= 1
                            /\ Len(branchName) >= digits + 2
                            /\ branchName[digits + 1] = "-"
             ticket == SubSeq(branchName, 1, digits)
             rest == SubSeq(branchName, digits + 2, Len(branchName))
             desc == [i \in 1..Len(rest) |-> IF rest[i] = "-" THEN " " ELSE rest[i]]
         IN  IF ticketMatch
             THEN ticket \o <<":", " ">> \o desc
             ELSE <<"P", "R", " ", "f", "r", "o", "m", " ">> \o sourceBranch

\* one click on the button that generates the title
GenerateTitleFromBranch ==
    /\ pFn = "generateTitleFromBranch" /\ pPc = "call"
    /\ pResult' = generateTitleFromBranch(pArg.sourceBranch, pArg.title)
    /\ pPc' = "done"
    /\ UNCHANGED <<pFn, pArg>>
    /\ UNCHANGED <<diffVars, glmVars, appVars, fetchVars, serviceVars, handlerVars, formVars>>

----------------------------------------------------------------------------
(* getVoteStatus (azureDevOpsService, PRCreationResult) and the vote buttons *)

\* getVoteStatus of the review service
getVoteStatus(vote) ==
    CASE vote = 0 ->
           [text |-> "No vote", color |-> "text-slate-400", icon |-> "fa-clock"]
      [] vote = 5 ->
           [text |-> "Approved", color |-> "text-green-400",
            icon |-> "fa-check-circle"]
      [] vote = 10 ->
           [text |-> "Approved with suggestions", color |-> "text-green-400",
            icon |-> "fa-check-circle"]
      [] vote = -5 ->
           [text |-> "Waiting for author", color |-> "text-yellow-400",
            icon |-> "fa-hourglass-half"]
      [] vote = -10 ->
           [text |-> "Rejected", color |-> "text-red-400", icon |-> "fa-times-circle"]
      [] OTHER ->
           [text |-> "Unknown", color |-> "text-slate-400",
            icon |-> "fa-question-circle"]

\* getVoteStatus of PRCreationResult that shows code 5 as code 10
PRCreationResult_getVoteStatus_Mut(vote) ==
    CASE vote = 0 -> [text |-> "No vote", color |-> "text-slate-400"]
      [] vote = 5 -> [text |-> "Approved with suggestions", color |-> "text-green-400"]
      [] vote = 10 -> [text |-> "Approved with suggestions", color |-> "text-green-400"]
      [] vote = -5 -> [text |-> "Waiting for author", color |-> "text-yellow-400"]
      [] vote = -10 -> [text |-> "Rejected", color |-> "text-red-400"]
      [] OTHER -> [text |-> "Unknown", color |-> "text-slate-400"]

\* the local getVoteStatus of PRCreationResult
PRCreationResult_getVoteStatus(vote) ==
    CASE vote = 0 -> [text |-> "No vote", color |-> "text-slate-400"]
      [] vote = 5 -> [text |-> "Approved", color |-> "text-green-400"]
      [] vote = 10 -> [text |-> "Approved with suggestions", color |-> "text-green-400"]
      [] vote = -5 -> [text |-> "Waiting for author", color |-> "text-yellow-400"]
      [] vote = -10 -> [text |-> "Rejected", color |-> "text-red-400"]
      [] OTHER -> [text |-> "Unknown", color |-> "text-slate-400"]

\* the vote buttons of PRReviewForm and PRReviewAnalysis: the label and the
\* argument of handleVote
VoteButtons ==
    {[label |-> "Approve", vote |-> 5],
     [label |-> "Approve w/ Suggestions", vote |-> 10],
     [label |-> "Wait for Author", vote |-> -5],
     [label |-> "Reject", vote |-> -10]}

\* one call of the review service's getVoteStatus(pArg)
GetVoteStatus ==
    /\ pFn = "getVoteStatus" /\ pPc = "call"
    /\ pResult' = getVoteStatus(pArg)
    /\ pPc' = "done"
    /\ UNCHANGED <<pFn, pArg>>
    /\ UNCHANGED <<diffVars, glmVars, appVars, fetchVars, serviceVars, handlerVars, formVars>>

\* PRCreationResult renders the vote pArg of a reviewer
RenderVoteStatus ==
    /\ pFn = "PRCreationResult.getVoteStatus" /\ pPc = "call"
    /\ pResult' = PRCreationResult_getVoteStatus(pArg)
    /\ pPc' = "done"
    /\ UNCHANGED <<pFn, pArg>>
    /\ UNCHANGED <<diffVars, glmVars, appVars, fetchVars, serviceVars, handlerVars, formVars>>

\* one click on the vote button pArg: pResult is the code given to handleVote,
\* which submitVote sends
PressVoteButton ==
    /\ pFn = "handleVote" /\ pPc = "call"
    /\ pResult' = pArg.vote
    /\ pPc' = "done"
    /\ UNCHANGED <<pFn, pArg>>
    /\ UNCHANGED <<diffVars, glmVars, appVars, fetchVars, serviceVars, handlerVars, formVars>>

----------------------------------------------------------------------------
(* The PR URL field of PRCreationForm, PRReviewForm and PRReviewAnalysis *)

\* decodeURIComponent on the modelled path segments; it throws for a '%'
\* that starts no escape sequence
decodeURIComponent(s) ==
    CASE s = "My%20Project" -> Ok("My Project")
      [] s = "100%" -> Thrown("URI malformed")
      [] OTHER -> Ok(s)

\* the parsePRUrl that PRReviewAnalysis declares for itself; decodePart of an
\* undefined part is the string "undefined"
PRReviewAnalysis_parsePRUrl(url) ==
    LET parsed == NewURL(url)
    IN  IF ~parsed.ok THEN JNull
        ELSE LET pathParts == SelectSeq(parsed.value.pathSplit, LAMBDA p : p # "")
                 pathPartsLower ==
                     [k \in 1..Len(pathParts) |-> ToLowerCase(pathParts[k])]
                 hostParts == parsed.value.hostParts
                 decodePart(value) ==
                     IF value = JUndef THEN Ok("undefined")
                     ELSE decodeURIComponent(value.v)
                 result(organization, project, repository, pullRequestId) ==
                     IF \A part \in {organization, project, repository, pullRequestId} :
                            decodePart(part).ok
                     THEN JObj([organization |-> JStr(decodePart(organization).value),
                                project |-> JStr(decodePart(project).value),
                                repository |-> JStr(decodePart(repository).value),
                                pullRequestId |->
                                    JStr(decodePart(pullRequestId).value)])
                     ELSE JNull
             IN  IF /\ Len(pathParts) >= 6
                    /\ At(pathPartsLower, 2) = JStr("_git")
                    /\ At(pathPartsLower, 4) \in {JStr("pullrequest"), JStr("pullrequests")}
                 THEN result(At(pathParts, 0), At(pathParts, 1), At(pathParts, 3),
                             At(pathParts, 5))
                 ELSE IF /\ Len(pathParts) >= 8
                         /\ At(pathPartsLower, 2) = JStr("_apis")
                         /\ At(pathPartsLower, 3) = JStr("git")
                         /\ At(pathPartsLower, 4) = JStr("repositories")
                         /\ At(pathPartsLower, 6) \in
                                {JStr("pullrequests"), JStr("pullrequest")}
                 THEN result(At(pathParts, 0), At(pathParts, 1), At(pathParts, 5),
                             At(pathParts, 7))
                 ELSE IF /\ At(hostParts, 1) = JStr("visualstudio")
                         /\ At(pathPartsLower, 1) = JStr("_git")
                 THEN result(At(hostParts, 0), At(pathParts, 0), At(pathParts, 2),
                             At(pathParts, 4))
                 ELSE JNull

\* the URLs typed into the PR URL field: nothing, a text that is no URL, and
\* https URLs of dev.azure.com and visualstudio.com
FormUrls ==
    {[href |-> text, host |-> <<>>, segments |-> <<>>, trailingSlash |-> FALSE] :
        text \in {"", "not a url"}}
    \cup
    [href : {"https"},
     host : {<<"dev", "azure", "com">>, <<"Contoso", "visualstudio", "com">>},
     segments : {<<"contoso", "My%20Project", "_git", "web", "pullrequest", "42">>,
                 <<"contoso", "web", "_git", "web", "PullRequest", "42">>,
                 <<"contoso", "100%", "_git", "web", "pullrequest", "42">>,
                 <<"contoso", "web", "_apis", "git", "repositories", "web",
                   "pullRequests", "42">>,
                 <<"web", "_git", "web", "pullrequest", "42">>,
                 <<"web", "_git", "web">>,
                 <<"contoso", "web">>},
     trailingSlash : {FALSE}]

\* PRCreationForm: setPrUrl(pArg.prUrl) by the URL field, then the effect on
\* [prUrl]; pArg.fields are the fields before, pResult the fields after
PRCreationForm_SetPrUrl ==
    /\ pFn = "PRCreationForm.setPrUrl" /\ pPc = "call"
    /\ LET params == parsePRUrl(pArg.prUrl)
       IN  pResult' =
               IF pArg.prUrl.href # "" /\ Truthy(params)
               THEN [pArg.fields EXCEPT !.organization = Prop(params, "organization"),
                                        !.project = Prop(params, "project"),
                                        !.repository = Prop(params, "repository"),
                                        !.targetBranch = JStr("main")]
               ELSE pArg.fields
    /\ pPc' = "done"
    /\ UNCHANGED <<pFn, pArg>>
    /\ UNCHANGED <<diffVars, glmVars, appVars, fetchVars, serviceVars, handlerVars, formVars>>

\* PRReviewForm: setPrUrl(pArg.prUrl) by the URL field; the component has no
\* effect on [prUrl] and never calls parsePRUrl
PRReviewForm_SetPrUrl ==
    /\ pFn = "PRReviewForm.setPrUrl" /\ pPc = "call"
    /\ pResult' = pArg.fields
    /\ pPc' = "done"
    /\ UNCHANGED <<pFn, pArg>>
    /\ UNCHANGED <<diffVars, glmVars, appVars, fetchVars, serviceVars, handlerVars, formVars>>

\* PRReviewAnalysis: setPrUrl(pArg.prUrl) by the URL field, then the effect
\* on [prUrl]
PRReviewAnalysis_SetPrUrl ==
    /\ pFn = "PRReviewAnalysis.setPrUrl" /\ pPc = "call"
    /\ LET params == PRReviewAnalysis_parsePRUrl(pArg.prUrl)
       IN  pResult' =
               IF pArg.prUrl.href # "" /\ Truthy(params)
               THEN [pArg.fields EXCEPT !.organization = Prop(params, "organization"),
                                        !.project = Prop(params, "project"),
                                        !.repository = Prop(params, "repository"),
                                        !.pullRequestId = Prop(params, "pullRequestId")]
               ELSE pArg.fields
    /\ pPc' = "done"
    /\ UNCHANGED <<pFn, pArg>>
    /\ UNCHANGED <<diffVars, glmVars, appVars, fetchVars, serviceVars, handlerVars, formVars>>

----------------------------------------------------------------------------
(* PRCreationForm.handleSubmit *)

\* handleSubmit that does not look at branchValidation.target
HandleSubmit_Mut ==
    /\ pFn = "PRCreationForm.handleSubmit" /\ pPc = "call"
    /\ pResult' =
          IF \E field \in {"organization", "project", "repository", "sourceBranch",
                           "targetBranch", "title"} : ~Truthy(pArg[field])
          THEN [isCreating |-> pArg.isCreating, requests |-> <<>>,
                error |-> JStr("Organization, project, repository, source branch, target branch, and title are required.")]
          ELSE IF ~pArg.branchValidation.source
          THEN [isCreating |-> pArg.isCreating, requests |-> <<>>,
                error |-> JStr("Source branch does not exist or you don't have access to it.")]
          ELSE [isCreating |-> TRUE, error |-> JNull,
                requests |-> <<[call |-> "createPR",
                                organization |-> pArg.organization,
                                project |-> pArg.project,
                                repository |-> pArg.repository,
                                sourceBranch |-> pArg.sourceBranch,
                                targetBranch |-> pArg.targetBranch,
                                title |-> pArg.title]>>]
    /\ pPc' = "done"
    /\ UNCHANGED <<pFn, pArg>>
    /\ UNCHANGED <<diffVars, glmVars, appVars, fetchVars, serviceVars, handlerVars, formVars>>

\* handleSubmit of the form pArg up to await createPR: pResult is the
\* isCreating and error it leaves in the state and the requests it sent
HandleSubmit ==
    /\ pFn = "PRCreationForm.handleSubmit" /\ pPc = "call"
    /\ pResult' =
          IF \E field \in {"organization", "project", "repository", "sourceBranch",
                           "targetBranch", "title"} : ~Truthy(pArg[field])
          THEN [isCreating |-> pArg.isCreating, requests |-> <<>>,
                error |-> JStr("Organization, project, repository, source branch, target branch, and title are required.")]
          ELSE IF ~pArg.branchValidation.source
          THEN [isCreating |-> pArg.isCreating, requests |-> <<>>,
                error |-> JStr("Source branch does not exist or you don't have access to it.")]
          ELSE IF ~pArg.branchValidation.target
          THEN [isCreating |-> pArg.isCreating, requests |-> <<>>,
                error |-> JStr("Target branch does not exist or you don't have access to it.")]
          ELSE [isCreating |-> TRUE, error |-> JNull,
                requests |-> <<[call |-> "createPR",
                                organization |-> pArg.organization,
                                project |-> pArg.project,
                                repository |-> pArg.repository,
                                sourceBranch |-> pArg.sourceBranch,
                                targetBranch |-> pArg.targetBranch,
                                title |-> pArg.title]>>]
    /\ pPc' = "done"
    /\ UNCHANGED <<pFn, pArg>>
    /\ UNCHANGED <<diffVars, glmVars, appVars, fetchVars, serviceVars, handlerVars, formVars>>

----------------------------------------------------------------------------
(* prCreationService.addReviewersToPR and linkWorkItemsToPR *)

\* the request fetchWithAuth sends: a body that is undefined is left out
Post(url, body) ==
    [method |-> "POST", url |-> url, body |-> IF Truthy(body) THEN body ELSE JUndef]

\* array[i] of JavaScript: undefined beyond the end
ElementAt(array, i) == IF i < Len(array) THEN array[i + 1] ELSE JUndef

\* the requests addReviewersToPR sends for a list of reviewers
addReviewersToPR(reviewers, isRequired) ==
    LET reviewerBody ==
            [k \in 1..Len(reviewers) |->
                JObj([displayName |-> JStr(reviewers[k]),
                      uniqueName |-> JStr(reviewers[k]),
                      isRequired |-> JBool(isRequired)])]
    IN  <<Post("pullRequests/{id}/reviewers", ElementAt(reviewerBody, 0))>>

\* the requests linkWorkItemsToPR sends for a list of work item ids
linkWorkItemsToPR(workItemIds) ==
    LET workItemBody ==
            [k \in 1..Len(workItemIds) |-> JObj([id |-> JStr(ToString(workItemIds[k]))])]
    IN  <<Post("pullRequests/{id}/workitems", ElementAt(workItemBody, 0))>>

\* one call of addReviewersToPR: pResult is the list of the requests sent
AddReviewersToPR ==
    /\ pFn = "addReviewersToPR" /\ pPc = "call"
    /\ pResult' = addReviewersToPR(pArg.reviewers, pArg.isRequired)
    /\ pPc' = "done"
    /\ UNCHANGED <<pFn, pArg>>
    /\ UNCHANGED <<diffVars, glmVars, appVars, fetchVars, serviceVars, handlerVars, formVars>>

\* one call of linkWorkItemsToPR: pResult is the list of the requests sent
LinkWorkItemsToPR ==
    /\ pFn = "linkWorkItemsToPR" /\ pPc = "call"
    /\ pResult' = linkWorkItemsToPR(pArg)
    /\ pPc' = "done"
    /\ UNCHANGED <<pFn, pArg>>
    /\ UNCHANGED <<diffVars, glmVars, appVars, fetchVars, serviceVars, handlerVars, formVars>>

----------------------------------------------------------------------------
(* PRCreationForm: the branch validation and the submit *)

\* the values the user gives the branch fields
BranchNames == {"", "main", "feature/7-a", "typo"}

\* the branches of the repository
RepositoryBranches == {"main", "feature/7-a"}

\* validateBranchExists: data.value.length > 0, and false when the request failed
validateBranchExists(branchName, upstream) ==
    upstream = "ok" /\ branchName \in RepositoryBranches

\* useState<PRCreateState> of the form
InitialCreateState == [isCreating |-> FALSE, error |-> "null", result |-> "null"]

\* validateBranch up to its await, when the effect's condition holds
ValidateBranch(running, branchName, type, ready) ==
    IF branchName # "" /\ ready
    THEN Append(running, [type |-> type, branchName |-> branchName, result |-> "pending"])
    ELSE running

\* organization, project, repository and pat are set: both validation
\* effects run
SetRepository ==
    /\ cMounted /\ ~cReady /\ ~cState.isCreating
    /\ cReady' = TRUE
    /\ cValidations' =
           ValidateBranch(ValidateBranch(cValidations, cSourceBranch, "source", TRUE),
                          cTargetBranch, "target", TRUE)
    /\ UNCHANGED <<cMounted, cSourceBranch, cTargetBranch, cBranchValidation, cState,
                   cRequests>>
    /\ UNCHANGED <<diffVars, glmVars, appVars, fetchVars, serviceVars, handlerVars,
                   pureVars, reviewVars>>

\* the user changes a branch field (disabled while isCreating): the effect
\* of that field runs
SetBranch(type, branchName, limit) ==
    /\ cMounted /\ ~cState.isCreating
    /\ branchName # (IF type = "source" THEN cSourceBranch ELSE cTargetBranch)
    /\ Len(cValidations) < limit
    /\ cSourceBranch' = IF type = "source" THEN branchName ELSE cSourceBranch
    /\ cTargetBranch' = IF type = "target" THEN branchName ELSE cTargetBranch
    /\ cValidations' = ValidateBranch(cValidations, branchName, type, cReady)
    /\ UNCHANGED <<cMounted, cReady, cBranchValidation, cState, cRequests>>
    /\ UNCHANGED <<diffVars, glmVars, appVars, fetchVars, serviceVars, handlerVars,
                   pureVars, reviewVars>>

\* the request of a validateBranch call ended: validateBranch sets the flag
\* of its type, whatever the field holds by now
ValidateBranchEnded(k, upstream) ==
    /\ cMounted
    /\ k \in 1..Len(cValidations)
    /\ cValidations[k].result = "pending"
    /\ LET exists == validateBranchExists(cValidations[k].branchName, upstream)
       IN  /\ cValidations' =
                  [cValidations EXCEPT ![k].result = IF exists THEN "true" ELSE "false"]
           /\ cBranchValidation' =
                  [cBranchValidation EXCEPT ![cValidations[k].type] = exists]
    /\ UNCHANGED <<cMounted, cReady, cSourceBranch, cTargetBranch, cState, cRequests>>
    /\ UNCHANGED <<diffVars, glmVars, appVars, fetchVars, serviceVars, handlerVars,
                   pureVars, reviewVars>>

\* handleSubmit up to await createPR, with a title given (the submit button
\* is disabled while isCreating)
SubmitForm(limit) ==
    /\ cMounted /\ ~cState.isCreating
    /\ Len(cRequests) < limit
    /\ IF ~cReady \/ cSourceBranch = "" \/ cTargetBranch = ""
       THEN /\ cState' = [cState EXCEPT !.error = "Organization, project, repository, source branch, target branch, and title are required."]
            /\ UNCHANGED cRequests
       ELSE IF ~cBranchValidation.source
       THEN /\ cState' = [cState EXCEPT !.error = "Source branch does not exist or you don't have access to it."]
            /\ UNCHANGED cRequests
       ELSE IF ~cBranchValidation.target
       THEN /\ cState' = [cState EXCEPT !.error = "Target branch does not exist or you don't have access to it."]
            /\ UNCHANGED cRequests
       ELSE /\ cState' = [cState EXCEPT !.isCreating = TRUE, !.error = "null"]
            /\ cRequests' = Append(cRequests, [sourceBranch |-> cSourceBranch,
                                               targetBranch |-> cTargetBranch])
    /\ UNCHANGED <<cMounted, cReady, cSourceBranch, cTargetBranch, cBranchValidation,
                   cValidations>>
    /\ UNCHANGED <<diffVars, glmVars, appVars, fetchVars, serviceVars, handlerVars,
                   pureVars, reviewVars>>

\* createPR resolved or rejected: both paths clear isCreating
CreatePREnded(upstream) ==
    /\ cMounted /\ cState.isCreating
    /\ cState' = IF upstream = "ok"
                 THEN [cState EXCEPT !.isCreating = FALSE, !.result = "created"]
                 ELSE [cState EXCEPT !.isCreating = FALSE, !.error = "Failed to fetch"]
    /\ UNCHANGED <<cMounted, cReady, cSourceBranch, cTargetBranch, cBranchValidation,
                   cValidations, cRequests>>
    /\ UNCHANGED <<diffVars, glmVars, appVars, fetchVars, serviceVars, handlerVars,
                   pureVars, reviewVars>>

CreationNext ==
    \/ SetRepository
    \/ \E type \in {"source", "target"}, branchName \in BranchNames :
           SetBranch(type, branchName, MaxValidations)
    \/ \E k \in 1..MaxValidations, upstream \in {"ok", "failed"} :
           ValidateBranchEnded(k, upstream)
    \/ SubmitForm(MaxSubmits)
    \/ \E upstream \in {"ok", "failed"} : CreatePREnded(upstream)

----------------------------------------------------------------------------
(* PRReviewAnalysis: the load of the pull request, the selected file and    *)
(* its formatting                                                           *)

\* the pull requests the user names in the four fields
PullRequestIds == {1, 2}

\* the paths of the changed files of each of them
Paths == {"/src/a.ts", "/README"}

\* null, for reviewDetails; [], for fileDiffs
NoLoad == [pr |-> 0, load |-> 0]

\* null, for selectedFile
NoFile == [pr |-> 0, load |-> 0, path |-> ""]

\* the empty string, for a text
NoText == [pr |-> 0, path |-> "", side |-> "", formatted |-> FALSE]

\* the entry of a path in the fileDiffs a load returned
FileDiffOfLoad(loaded, path) == [pr |-> loaded.pr, load |-> loaded.load, path |-> path]

\* normalizeContent(file.sourceContent), normalizeContent(file.targetContent)
normalizeContent(file, side) ==
    [pr |-> file.pr, path |-> file.path, side |-> side, formatted |-> FALSE]

\* getPrettierParser: by the extension of the path, null without a known one
getPrettierParser(filePath) == IF filePath = "/src/a.ts" THEN "typescript" ELSE "null"

\* formatWithPrettier: the content itself when it is empty, has no parser or
\* prettier.format throws
formatWithPrettier(content, filePath, prettier) ==
    IF content = NoText \/ getPrettierParser(filePath) = "null" \/ prettier = "throws"
    THEN content
    ELSE [content EXCEPT !.formatted = TRUE]

\* the texts diffLines and analyzeFileChanges build the diff of: the
\* formatted text unless it is "", else the content of the selected file
DiffTexts(file, formattedSource, formattedTarget) ==
    [path |-> file.path,
     sourceText |-> IF formattedSource # NoText THEN formattedSource
                    ELSE normalizeContent(file, "source"),
     targetText |-> IF formattedTarget # NoText THEN formattedTarget
                    ELSE normalizeContent(file, "target")]

\* the user sets the four fields to name another pull request: the effect
\* calls loadPRDetails, which runs up to its await
SetFields(pr, limit) ==
    /\ rMounted
    /\ pr # rFields
    /\ Len(rLoads) < limit
    /\ rFields' = pr
    /\ rLoads' = Append(rLoads, [pr |-> pr, status |-> "pending"])
    /\ UNCHANGED <<rMounted, rReviewDetails, rFileDiffs, rSelectedFile, rFormattedSource,
                   rFormattedTarget, rIsFormatting, rFormatRuns, rIsAnalyzing,
                   rAnalysisRequests>>
    /\ UNCHANGED <<diffVars, glmVars, appVars, fetchVars, serviceVars, handlerVars,
                   pureVars, creationVars>>

\* Promise.all of a loadPRDetails call settled: reviewDetails and fileDiffs
\* are set, or the catch block shows its alert
LoadPRDetailsEnded(k, upstream) ==
    /\ rMounted
    /\ k \in 1..Len(rLoads)
    /\ rLoads[k].status = "pending"
    /\ rLoads' = [rLoads EXCEPT ![k].status = IF upstream = "ok" THEN "done" ELSE "failed"]
    /\ rReviewDetails' = IF upstream = "ok" THEN [pr |-> rLoads[k].pr, load |-> k]
                         ELSE rReviewDetails
    /\ rFileDiffs' = IF upstream = "ok" THEN [pr |-> rLoads[k].pr, load |-> k]
                     ELSE rFileDiffs
    /\ UNCHANGED <<rMounted, rFields, rSelectedFile, rFormattedSource, rFormattedTarget,
                   rIsFormatting, rFormatRuns, rIsAnalyzing, rAnalysisRequests>>
    /\ UNCHANGED <<diffVars, glmVars, appVars, fetchVars, serviceVars, handlerVars,
                   pureVars, creationVars>>

\* the user picks another option of the file select: selectedFile is set,
\* the cleanup of the formatting effect cancels its last run, and the effect
\* runs again
SelectFile(path, limit) ==
    /\ rMounted
    /\ rFileDiffs # NoLoad
    /\ path # rSelectedFile.path
    /\ Len(rFormatRuns) < limit
    /\ LET file == IF path = "" THEN NoFile ELSE FileDiffOfLoad(rFileDiffs, path)
           cancelled == [k \in 1..Len(rFormatRuns) |->
                            [rFormatRuns[k] EXCEPT !.cancelled = TRUE]]
       IN  /\ rSelectedFile' = file
           /\ IF file = NoFile
              THEN /\ rFormattedSource' = NoText
                   /\ rFormattedTarget' = NoText
                   /\ rIsFormatting' = FALSE
                   /\ rFormatRuns' = cancelled
              ELSE /\ rIsFormatting' = TRUE
                   /\ rFormatRuns' =
                          Append(cancelled,
                                 [file |-> file, cancelled |-> FALSE, status |-> "running"])
                   /\ UNCHANGED <<rFormattedSource, rFormattedTarget>>
    /\ UNCHANGED <<rMounted, rFields, rLoads, rReviewDetails, rFileDiffs, rIsAnalyzing,
                   rAnalysisRequests>>
    /\ UNCHANGED <<diffVars, glmVars, appVars, fetchVars, serviceVars, handlerVars,
                   pureVars, creationVars>>

\* Promise.all of a run of runFormatting resolved: a cancelled run returns,
\* any other sets the formatted texts and clears isFormatting
RunFormattingEnded(k, prettier) ==
    /\ rMounted
    /\ k \in 1..Len(rFormatRuns)
    /\ rFormatRuns[k].status = "running"
    /\ rFormatRuns' = [rFormatRuns EXCEPT ![k].status = "ended"]
    /\ IF rFormatRuns[k].cancelled
       THEN UNCHANGED <<rFormattedSource, rFormattedTarget, rIsFormatting>>
       ELSE LET file == rFormatRuns[k].file
            IN  /\ rFormattedSource' =
                       formatWithPrettier(normalizeContent(file, "source"), file.path,
                                          prettier)
                /\ rFormattedTarget' =
                       formatWithPrettier(normalizeContent(file, "target"), file.path,
                                          prettier)
                /\ rIsFormatting' = FALSE
    /\ UNCHANGED <<rMounted, rFields, rLoads, rReviewDetails, rFileDiffs, rSelectedFile,
                   rIsAnalyzing, rAnalysisRequests>>
    /\ UNCHANGED <<diffVars, glmVars, appVars, fetchVars, serviceVars, handlerVars,
                   pureVars, creationVars>>

\* analyzeFileChanges up to await analyzeFunction (the button is shown with
\* a selected file and disabled while isAnalyzing)
AnalyzeFileChanges(limit) ==
    /\ rMounted
    /\ rSelectedFile # NoFile
    /\ ~rIsAnalyzing
    /\ Len(rAnalysisRequests) < limit
    /\ rIsAnalyzing' = TRUE
    /\ rAnalysisRequests' =
           Append(rAnalysisRequests,
                  DiffTexts(rSelectedFile, rFormattedSource, rFormattedTarget))
    /\ UNCHANGED <<rMounted, rFields, rLoads, rReviewDetails, rFileDiffs, rSelectedFile,
                   rFormattedSource, rFormattedTarget, rIsFormatting, rFormatRuns>>
    /\ UNCHANGED <<diffVars, glmVars, appVars, fetchVars, serviceVars, handlerVars,
                   pureVars, creationVars>>

\* analyzeFunction resolved or rejected: the finally block clears isAnalyzing
AnalyzeFileChangesEnded ==
    /\ rMounted
    /\ rIsAnalyzing
    /\ rIsAnalyzing' = FALSE
    /\ UNCHANGED <<rMounted, rFields, rLoads, rReviewDetails, rFileDiffs, rSelectedFile,
                   rFormattedSource, rFormattedTarget, rIsFormatting, rFormatRuns,
                   rAnalysisRequests>>
    /\ UNCHANGED <<diffVars, glmVars, appVars, fetchVars, serviceVars, handlerVars,
                   pureVars, creationVars>>

ReviewNext ==
    \/ \E pr \in PullRequestIds : SetFields(pr, MaxLoads)
    \/ \E k \in 1..MaxLoads, upstream \in {"ok", "failed"} : LoadPRDetailsEnded(k, upstream)
    \/ \E path \in Paths \cup {""} : SelectFile(path, MaxSelections)
    \/ \E k \in 1..MaxSelections, prettier \in {"ok", "throws"} :
           RunFormattingEnded(k, prettier)
    \/ AnalyzeFileChanges(MaxAnalyses)
    \/ AnalyzeFileChangesEnded

----------------------------------------------------------------------------
(* Specifications *)

\* the parts of the program a specification leaves out stay as they are
Idle(part) ==
    CASE part = "Diff" ->
           /\ dSource = <<>>
           /\ dTarget = <<>>
           /\ dPc = "off"
           /\ dResult = NoDiff
      [] part = "Glm" ->
           /\ gApiKey = FALSE
           /\ gUpstream = [type |-> "reject", message |-> ""]
           /\ gPc = "off"
           /\ gResult = NoResult
      [] part = "App" ->
           /\ state = InitialAppState
           /\ aiProvider = "gemini"
           /\ apiKeys = [p \in Providers |-> FALSE]
           /\ calls = {}
           /\ nCalls = 0
           /\ merged = <<>>
           /\ overlapped = FALSE
      [] part = "Fetch" ->
           /\ fChanges = <<>>
           /\ fRequests = {}
           /\ fSettled = <<>>
           /\ fPc = "off"
           /\ fResult = <<>>
      [] part = "Service" ->
           /\ sOp = "none"
           /\ sPc = "off"
           /\ sLog = <<>>
           /\ sChanges = <<>>
           /\ sCommits = FALSE
           /\ sFiles = <<>>
           /\ sResult = NoResult
      [] part = "Handler" ->
           /\ hHandler = [component |-> "none"]
           /\ hPc = "off"
           /\ hStep = 0
           /\ hPending = {}
           /\ hBusy = FALSE
           /\ hError = "null"
           /\ hAlert = "none"
           /\ hFailure = "none"
           /\ hFallback = FALSE
      [] part = "Pure" ->
           /\ pFn = "none"
           /\ pArg = 0
           /\ pPc = "off"
           /\ pResult = JNull
      [] part = "Creation" ->
           /\ cMounted = FALSE
           /\ cReady = FALSE
           /\ cSourceBranch = ""
           /\ cTargetBranch = "main"
           /\ cBranchValidation = [source |-> FALSE, target |-> FALSE]
           /\ cValidations = <<>>
           /\ cState = InitialCreateState
           /\ cRequests = <<>>
      [] part = "Review" ->
           /\ rMounted = FALSE
           /\ rFields = 0
           /\ rLoads = <<>>
           /\ rReviewDetails = NoLoad
           /\ rFileDiffs = NoLoad
           /\ rSelectedFile = NoFile
           /\ rFormattedSource = NoText
           /\ rFormattedTarget = NoText
           /\ rIsFormatting = FALSE
           /\ rFormatRuns = <<>>
           /\ rIsAnalyzing = FALSE
           /\ rAnalysisRequests = <<>>

DiffInit ==
    /\ dSource \in TextsUpTo(Chars, MaxTextLen)
    /\ dTarget \in TextsUpTo(Chars, MaxTextLen)
    /\ dPc = "input"
    /\ dResult = NoDiff
    /\ Idle("Glm")
    /\ Idle("App")
    /\ Idle("Fetch")
    /\ Idle("Service")
    /\ Idle("Handler")
    /\ Idle("Pure")
    /\ Idle("Creation")
    /\ Idle("Review")

GlmInit ==
    /\ gApiKey \in BOOLEAN
    /\ gUpstream \in GlmUpstreams
    /\ gPc = "call"
    /\ gResult = NoResult
    /\ Idle("Diff")
    /\ Idle("App")
    /\ Idle("Fetch")
    /\ Idle("Service")
    /\ Idle("Handler")
    /\ Idle("Pure")
    /\ Idle("Creation")
    /\ Idle("Review")

AppInit ==
    /\ state = InitialAppState
    /\ aiProvider \in Providers
    /\ apiKeys \in [Providers -> BOOLEAN]
    /\ calls = {}
    /\ nCalls = 0
    /\ merged = <<>>
    /\ overlapped = FALSE
    /\ Idle("Diff")
    /\ Idle("Glm")
    /\ Idle("Fetch")
    /\ Idle("Service")
    /\ Idle("Handler")
    /\ Idle("Pure")
    /\ Idle("Creation")
    /\ Idle("Review")

FetchInit ==
    /\ fChanges \in UNION {[1..k -> ChangeEntries] : k \in 0..MaxBatchFiles}
    /\ fRequests = {}
    /\ fSettled = <<>>
    /\ fPc = "call"
    /\ fResult = <<>>
    /\ Idle("Diff")
    /\ Idle("Glm")
    /\ Idle("App")
    /\ Idle("Service")
    /\ Idle("Handler")
    /\ Idle("Pure")
    /\ Idle("Creation")
    /\ Idle("Review")

ServiceInit ==
    /\ sOp \in {"getPRFileDiffs", "getPRMetadata"}
    /\ sPc = "call"
    /\ sLog = <<>>
    /\ sChanges = <<>>
    /\ sCommits = FALSE
    /\ sFiles = <<>>
    /\ sResult = NoResult
    /\ Idle("Diff")
    /\ Idle("Glm")
    /\ Idle("App")
    /\ Idle("Fetch")
    /\ Idle("Handler")
    /\ Idle("Pure")
    /\ Idle("Creation")
    /\ Idle("Review")

HandlerInit ==
    /\ hHandler \in Handlers
    /\ hPc = "ready"
    /\ hStep = 0
    /\ hPending = {}
    /\ hBusy = FALSE
    /\ hError = "null"
    /\ hAlert = "none"
    /\ hFailure = "none"
    /\ hFallback = FALSE
    /\ Idle("Diff")
    /\ Idle("Glm")
    /\ Idle("App")
    /\ Idle("Fetch")
    /\ Idle("Service")
    /\ Idle("Pure")
    /\ Idle("Creation")
    /\ Idle("Review")

\* buildSideBySideDiff on every pair of bounded texts
SpecDiff == DiffInit /\ [][BuildDiff]_vars

\* glmService.analyzeBatch on every modelled upstream outcome
SpecGlm == GlmInit /\ [][GlmNext]_vars

\* App with startAnalysis and loadNextBatch invoked whenever the page allows
SpecApp == AppInit /\ [][AppNext]_vars

\* fetchBatchContents on every bounded change list, the responses in any order
SpecFetch == FetchInit /\ [][FetchNext]_vars

\* getPRFileDiffs and getPRMetadata on every modelled upstream behaviour
SpecService == ServiceInit /\ [][ServiceNext]_vars

\* every user-triggered operation, its upstream calls succeeding or failing
SpecHandlers == HandlerInit /\ [][HandlerNext]_vars

\* the functions that are called with an argument of their own
PureCalls ==
    ({"parsePRUrl"} \X Urls)
    \cup ({"generateTitleFromBranch"} \X
              [sourceBranch : TextsUpTo({"/", "-", "4", "7", "a"}, MaxBranchLen),
               title : {<<>>, <<"a">>}])
    \cup ({"getVoteStatus", "PRCreationResult.getVoteStatus"} \X (-MaxVote..MaxVote))
    \cup ({"handleVote"} \X VoteButtons)
    \cup ({"PRCreationForm.setPrUrl", "PRReviewForm.setPrUrl",
           "PRReviewAnalysis.setPrUrl"} \X
              [prUrl : FormUrls,
               fields : {[organization |-> JStr(old), project |-> JStr(old),
                          repository |-> JStr(old), pullRequestId |-> JStr(old),
                          targetBranch |-> JStr(branch)] :
                             old \in {"", "old"}, branch \in {"main", "develop"}}])
    \cup ({"PRCreationForm.handleSubmit"} \X
              [organization : {JStr(""), JStr("contoso")},
               project : {JStr(""), JStr("web")},
               repository : {JStr(""), JStr("web"), JUndef},
               sourceBranch : {JStr(""), JStr("feature/7-a")},
               targetBranch : {JStr(""), JStr("main")},
               title : {JStr(""), JStr("7: a")},
               branchValidation : [source : BOOLEAN, target : BOOLEAN],
               isCreating : {FALSE}])
    \cup ({"addReviewersToPR"} \X
              [reviewers : UNION {[1..k -> {"ann@contoso.com", "bob@contoso.com"}] :
                                     k \in 0..MaxListLen},
               isRequired : BOOLEAN])
    \cup ({"linkWorkItemsToPR"} \X UNION {[1..k -> {7, 8}] : k \in 0..MaxListLen})

PureInit ==
    /\ \E call \in PureCalls : pFn = call[1] /\ pArg = call[2]
    /\ pPc = "call"
    /\ pResult = JNull
    /\ Idle("Diff")
    /\ Idle("Glm")
    /\ Idle("App")
    /\ Idle("Fetch")
    /\ Idle("Service")
    /\ Idle("Handler")
    /\ Idle("Creation")
    /\ Idle("Review")

CreationInit ==
    /\ cMounted = TRUE
    /\ cReady = FALSE
    /\ cSourceBranch = ""
    /\ cTargetBranch = "main"
    /\ cBranchValidation = [source |-> FALSE, target |-> FALSE]
    /\ cValidations = <<>>
    /\ cState = InitialCreateState
    /\ cRequests = <<>>
    /\ Idle("Diff")
    /\ Idle("Glm")
    /\ Idle("App")
    /\ Idle("Fetch")
    /\ Idle("Service")
    /\ Idle("Handler")
    /\ Idle("Pure")
    /\ Idle("Review")

SpecCreation == CreationInit /\ [][CreationNext]_vars

ReviewInit ==
    /\ rMounted = TRUE
    /\ rFields = 0
    /\ rLoads = <<>>
    /\ rReviewDetails = NoLoad
    /\ rFileDiffs = NoLoad
    /\ rSelectedFile = NoFile
    /\ rFormattedSource = NoText
    /\ rFormattedTarget = NoText
    /\ rIsFormatting = FALSE
    /\ rFormatRuns = <<>>
    /\ rIsAnalyzing = FALSE
    /\ rAnalysisRequests = <<>>
    /\ Idle("Diff")
    /\ Idle("Glm")
    /\ Idle("App")
    /\ Idle("Fetch")
    /\ Idle("Service")
    /\ Idle("Handler")
    /\ Idle("Pure")
    /\ Idle("Creation")

SpecReview == ReviewInit /\ [][ReviewNext]_vars

\* one of the components is rendered and used: a handler of the forms, App
\* with both API keys set, PRCreationForm or PRReviewAnalysis
LiveInit ==
    \/ HandlerInit
    \/ AppInit /\ apiKeys = [p \in Providers |-> TRUE]
    \/ CreationInit
    \/ ReviewInit

\* the steps of the user; PRReviewAnalysis loads one pull request
UserNext ==
    \/ Invoke
    \/ /\ apiKeys = [p \in Providers |-> TRUE]
       /\ \E url \in AppUrls : StartAnalysis(url, "pat", MaxLiveCalls)
    \/ LoadNextBatch(MaxLiveCalls)
    \/ SetRepository
    \/ \E type \in {"source", "target"}, branchName \in BranchNames :
           SetBranch(type, branchName, MaxLiveCalls)
    \/ SubmitForm(MaxSubmits)
    \/ \E pr \in PullRequestIds : SetFields(pr, 1)
    \/ \E path \in Paths \cup {""} : SelectFile(path, MaxSelections)
    \/ AnalyzeFileChanges(MaxAnalyses)

\* the steps in which a pending call resolves or rejects
SettleNext ==
    \/ \E call \in ServiceCalls : CallResolved(call)
    \/ \E call \in ServiceCalls, message \in UpstreamMessages :
           CallFellBack(call, message)
    \/ \E call \in ServiceCalls, message \in UpstreamMessages :
           CallRejected(call, message)
    \/ \E c \in calls : StartDetailsFailed(c)
    \/ \E c \in calls : \E status \in {"active", "Abandoned"} : StartDetailsLoaded(c, status)
    \/ \E c \in calls : StartMetadataFailed(c)
    \/ \E c \in calls : \E n \in {0, BatchSize + 1} : StartMetadataLoaded(c, n)
    \/ \E c \in calls : BatchContentsFetched(c)
    \/ \E c \in calls : \E upstream \in AppUpstreams : StartAnalyzed(c, upstream)
    \/ \E c \in calls : \E upstream \in AppUpstreams : NextAnalyzed(c, upstream)
    \/ \E k \in 1..MaxLiveCalls, upstream \in {"ok", "failed"} :
           ValidateBranchEnded(k, upstream)
    \/ \E upstream \in {"ok", "failed"} : CreatePREnded(upstream)
    \/ \E upstream \in {"ok", "failed"} : LoadPRDetailsEnded(1, upstream)
    \/ \E k \in 1..MaxSelections, prettier \in {"ok", "throws"} :
           RunFormattingEnded(k, prettier)
    \/ AnalyzeFileChangesEnded

\* every pending upstream call eventually resolves or rejects; the user is
\* free to do nothing more
SpecLive == LiveInit /\ [][UserNext \/ SettleNext]_vars /\ WF_vars(SettleNext)

PureNext ==
    \/ ParsePRUrl
    \/ GenerateTitleFromBranch
    \/ GetVoteStatus
    \/ RenderVoteStatus
    \/ PressVoteButton
    \/ PRCreationForm_SetPrUrl
    \/ PRReviewForm_SetPrUrl
    \/ PRReviewAnalysis_SetPrUrl
    \/ HandleSubmit
    \/ AddReviewersToPR
    \/ LinkWorkItemsToPR

SpecPure == PureInit /\ [][PureNext]_vars

OverlapInit ==
    /\ AppInit
    /\ aiProvider = "gemini"
    /\ apiKeys = [p \in Providers |-> TRUE]

\* App analysing pull requests of BatchSize + 1 changes with both API keys set
SpecOverlap == OverlapInit /\ [][OverlapNext]_vars

----------------------------------------------------------------------------
(* Properties of the side-by-side diff *)

DiffTypes(side) == {side[k].type : k \in 1..Len(side)}

IsEmptyRow(row) == row.type = "empty" => row.text = <<>> /\ row.lineNumber = Null

\* C1: buildSideBySideDiff returns left and right of equal length; at every
\* index the types are (same, same), (removed, empty) or (empty, added); every
\* row of type "empty" has text "" and lineNumber null.
C1_RowsAligned ==
    dPc = "done" =>
        /\ Len(dResult.left) = Len(dResult.right)
        /\ \A k \in 1..Len(dResult.left) :
               /\ <<dResult.left[k].type, dResult.right[k].type>> \in
                      {<<"same", "same">>, <<"removed", "empty">>,
                       <<"empty", "added">>}
               /\ IsEmptyRow(dResult.left[k])
               /\ IsEmptyRow(dResult.right[k])

\* a diff that has a matched, a removed and an added row
C1_Witness ==
    /\ dPc = "done"
    /\ DiffTypes(dResult.left) = {"same", "removed", "empty"}
    /\ DiffTypes(dResult.right) = {"same", "added", "empty"}

\* the common subsequences of two line sequences, by enumeration
CommonSubseqs(S, T) ==
    {SelectSeqIdx(S, I) : I \in SUBSET (1..Len(S))} \cap
    {SelectSeqIdx(T, J) : J \in SUBSET (1..Len(T))}

\* the length of a longest common subsequence
LcsLength(S, T) ==
    CHOOSE n \in 0..Min(Len(S), Len(T)) :
        /\ \E c \in CommonSubseqs(S, T) : Len(c) = n
        /\ \A c \in CommonSubseqs(S, T) : Len(c) <= n

SameCount(side) == Cardinality({k \in 1..Len(side) : side[k].type = "same"})

\* C2: the number of "same" rows is the length of a longest common
\* subsequence of the two line sequences, and the diff has n + m - LCS rows.
C2_SameRowsAreLcs ==
    dPc = "done" =>
        LET S   == SplitLines(dSource)
            T   == SplitLines(dTarget)
            lcs == LcsLength(S, T)
        IN  /\ SameCount(dResult.left) = lcs
            /\ SameCount(dResult.right) = lcs
            /\ Len(dResult.left) = Len(S) + Len(T) - lcs

\* two texts of several lines that share some but not all of their lines
C2_Witness ==
    /\ dPc = "done"
    /\ LET S   == SplitLines(dSource)
           T   == SplitLines(dTarget)
           lcs == LcsLength(S, T)
       IN  Len(S) >= 3 /\ Len(T) >= 3 /\ lcs >= 1 /\ lcs < Min(Len(S), Len(T))

\* the rows of one side that are not of type "empty", in order
RealRows(side) == SelectSeq(side, LAMBDA row : row.type # "empty")

\* the rows that the lines of a text must appear as: line k at number k
IsLinesOf(rows, lines) ==
    /\ Len(rows) = Len(lines)
    /\ \A k \in 1..Len(rows) :
           rows[k].text = lines[k] /\ rows[k].lineNumber = k

\* C3: the non-empty rows of left are exactly the source lines numbered
\* 1..n in order, those of right the target lines numbered 1..m, and both
\* sides of a "same" row carry equal text.
C3_LinesPreserved ==
    dPc = "done" =>
        /\ IsLinesOf(RealRows(dResult.left), SplitLines(dSource))
        /\ IsLinesOf(RealRows(dResult.right), SplitLines(dTarget))
        /\ \A k \in 1..Len(dResult.left) :
               (k <= Len(dResult.right) /\ dResult.left[k].type = "same")
                   => dResult.left[k].text = dResult.right[k].text

\* a diff of two different multi-line texts with removed and added lines
C3_Witness ==
    /\ dPc = "done"
    /\ Len(SplitLines(dSource)) >= 2
    /\ Len(SplitLines(dTarget)) >= 2
    /\ SplitLines(dSource) # SplitLines(dTarget)
    /\ "removed" \in DiffTypes(dResult.left)
    /\ "added" \in DiffTypes(dResult.right)
    /\ "same" \in DiffTypes(dResult.left)

----------------------------------------------------------------------------
(* Properties of glmService.analyzeBatch *)

\* the request failed, or the content is a text that cannot be parsed
IsRequestOrParseError(upstream) ==
    \/ upstream.type = "reject"
    \/ upstream.type = "response" /\ upstream.content.form \in {"prose", "broken"}

\* the message of the error of a failed request or a failed parse
ErrorMessageOf(upstream) ==
    IF upstream.type = "reject" THEN upstream.message ELSE "Failed to parse GLM response as JSON"

\* the object returned for a failure: Critical, with one high comment
\* that carries the message
IsFailureReport(value, message) ==
    /\ Prop(value, "overallHealth") = JStr("Critical")
    /\ Prop(Prop(value, "stats"), "riskLevel") = JStr("Critical")
    /\ Len(Items(Prop(value, "codeReviewComments"))) = 1
    /\ LET comment == Items(Prop(value, "codeReviewComments"))[1]
       IN  /\ Prop(comment, "severity") = JStr("high")
           /\ message # "" =>
                  Prop(comment, "comment") = JStr("Analysis failed: " \o message)

\* C10: with the GLM API key configured analyzeBatch never rejects; it
\* resolves to an object for every upstream outcome, and on a request or parse
\* error that object is Critical with exactly one high comment carrying the
\* error message.  Only a missing API key makes it reject.
C10_GlmNeverRejects ==
    gPc = "done" =>
        /\ gApiKey =>
               /\ gResult.kind = "resolve"
               /\ gResult.value.t = "obj"
               /\ IsRequestOrParseError(gUpstream) =>
                      IsFailureReport(gResult.value, ErrorMessageOf(gUpstream))
        /\ gResult.kind = "reject" <=> ~gApiKey

\* a failed request with the key set, answered by the failure report
C10_Witness ==
    /\ gPc = "done"
    /\ gApiKey
    /\ gUpstream.type = "reject"
    /\ gUpstream.message # ""
    /\ gResult.kind = "resolve"

----------------------------------------------------------------------------
(* Properties of the batch pagination of App *)

\* the entries of a batch
Entries(batch) == {batch[k] : k \in 1..Len(batch)}

\* the number of changes analysed by the first k merged batches
AnalysedBefore(k) == Len(Concat([j \in 1..(k - 1) |-> merged[j].batch]))

\* the merged batches are consecutive slices of allChanges of BatchSize
\* entries, and processedCount counts them
PaginatedInOrder ==
    /\ \A k \in 1..Len(merged) :
           /\ merged[k].from = AnalysedBefore(k)
           /\ merged[k].batch =
                  Slice(state.allChanges, merged[k].from, merged[k].from + BatchSize)
    /\ state.processedCount = Min(Len(state.allChanges), BatchSize * Len(merged))

\* C4: after a successful startAnalysis on n > 0 changes processedCount is
\* min(10, n); every successful loadNextBatch that completes before the next
\* one starts analyses allChanges[processedCount, processedCount + 10) and
\* advances processedCount by the size of that slice, so that processedCount
\* is n after ceil(n / 10) batches; and 0 <= processedCount <=
\* allChanges.length in every reachable state.
C4_BatchPagination ==
    /\ state.processedCount >= 0
    /\ state.processedCount <= Len(state.allChanges)
    /\ (merged # <<>> /\ ~overlapped) => PaginatedInOrder

\* the part of C4 about invocations that do not overlap: it holds
C4_SerialPagination ==
    ~overlapped =>
        /\ state.processedCount \in 0..Len(state.allChanges)
        /\ merged # <<>> => PaginatedInOrder

\* the values of one field of all merged batch analyses, in the order in
\* which the batches were merged
AllOf(field) ==
    Concat([k \in 1..Len(merged) |-> Items(Prop(merged[k].analysis, field))])

ListFields ==
    {"keyPoints", "securityConcerns", "performanceTips", "codeReviewComments"}

LatestFields ==
    {"summary", "overallHealth", "architecturalImpact", "contextAlignment", "stats"}

\* C5: after startAnalysis and k successful loadNextBatch calls, keyPoints,
\* securityConcerns, performanceTips and codeReviewComments of state.analysis
\* are the concatenation, in batch order, of that field of all k + 1 batch
\* analyses; summary, overallHealth, architecturalImpact, contextAlignment
\* and stats are those of the most recent batch.
C5_BatchMerging ==
    merged # <<>> =>
        /\ \A field \in ListFields :
               Items(Prop(state.analysis, field)) = AllOf(field)
        /\ \A field \in LatestFields :
               Prop(state.analysis, field) = Prop(merged[Len(merged)].analysis, field)

\* three batches merged one after the other, with different answers
C5_Witness ==
    /\ Len(merged) = 3
    /\ ~overlapped
    /\ merged[1].analysis # merged[2].analysis
    /\ merged[2].analysis # merged[3].analysis
    /\ calls = {}

\* C6: the batch state needs no synchronisation: under every interleaving of
\* loadNextBatch invocations, also overlapping ones, each entry of allChanges
\* is in at most one analysed batch, no entry below processedCount was
\* skipped, and processedCount never exceeds allChanges.length.
C6_NoSynchronisationNeeded ==
    /\ \A j, k \in 1..Len(merged) :
           j # k => Entries(merged[j].batch) \cap Entries(merged[k].batch) = {}
    /\ \A i \in 1..state.processedCount :
           \E k \in 1..Len(merged) : i \in Entries(merged[k].batch)
    /\ state.processedCount <= Len(state.allChanges)

----------------------------------------------------------------------------
(* Properties of fetchBatchContents *)

\* path and change type of the entries of a list
Identity(list, pathOf(_), typeOf(_)) ==
    [k \in 1..Len(list) |-> <<pathOf(list[k]), typeOf(list[k])>>]

\* the input changes that have a path
WithPath(changes) == SelectSeq(changes, LAMBDA change : Truthy(PathOf(change)))

\* C7: fetchBatchContents returns one FileDiff per change that has a path, in
\* the relative order of the input changes, whatever the order in which the
\* responses arrive; changes without a path are dropped.
C7_FetchKeepsOrder ==
    fPc = "done" =>
        Identity(fResult, LAMBDA f : Prop(f, "path"), LAMBDA f : Prop(f, "changeType"))
            = Identity(WithPath(fChanges), PathOf, ChangeTypeOf)

\* a batch with a pathless change whose responses arrived in reverse order
C7_Witness ==
    /\ fPc = "done"
    /\ \E k \in 1..Len(fChanges) : ~Truthy(PathOf(fChanges[k]))
    /\ \E j, k \in 1..Len(fSettled) :
           /\ j < k
           /\ fSettled[j].index > fSettled[k].index
           /\ fSettled[j].index \in fRequests
           /\ fSettled[k].index \in fRequests
           /\ Prop(fSettled[j].value, "path") # Prop(fSettled[k].value, "path")

----------------------------------------------------------------------------
(* Properties of the service calls *)

\* C9: there is no retry: within one invocation of a service operation the
\* same endpoint URL is never requested a second time after it failed or
\* returned no data.
C9_NoRetry ==
    \A j, k \in 1..Len(sLog) :
        (j < k /\ sLog[j].url = sLog[k].url)
            => sLog[j].outcome \notin {"failed", "no data", "not ok", "throws"}

----------------------------------------------------------------------------
(* Properties of the error handling *)

\* C8: for every user-triggered operation that calls an upstream API, a
\* failure of the upstream call ends in a state where a UI-visible error
\* message is set or a fallback object has been returned; no failure ends
\* with neither.
C8_FailuresSurfaced ==
    (hPc = "done" /\ hFailure # "none")
        => (hError # "null" \/ hAlert # "none" \/ hFallback)

----------------------------------------------------------------------------
(* Properties of the analysis schema *)

\* the PRAnalysis schema of types.ts, as far as the interface fixes it
ConformsToSchema(value) ==
    /\ value.t = "obj"
    /\ Prop(value, "summary").t = "str"
    /\ LET stats == Prop(value, "stats")
       IN  /\ stats.t = "obj"
           /\ Prop(stats, "complexityScore").t = "num"
           /\ Prop(stats, "estimatedReviewMinutes").t = "num"
           /\ Prop(stats, "breakingChange").t = "bool"
           /\ Prop(stats, "riskLevel")
                  \in {JStr(r) : r \in {"Low", "Medium", "High", "Critical"}}
           /\ Prop(stats, "blastRadius")
                  \in {JStr(r) : r \in {"Isolated", "Module-wide", "System-wide"}}
           /\ Prop(stats, "testPresence")
                  \in {JStr(r) : r \in {"Missing", "Partial", "Comprehensive"}}
    /\ \A field \in {"keyPoints", "securityConcerns", "performanceTips",
                     "codeReviewComments"} :
           Prop(value, field).t = "arr"

\* C11: every PRAnalysis that analyzeBatch resolves to conforms to the fixed
\* schema, for every JSON value the LLM may return: summary is present, stats
\* has its six fields with riskLevel, blastRadius and testPresence inside
\* their enumerations, and the four list fields are lists.
C11_AnalysisConformsToSchema ==
    (gPc = "done" /\ gResult.kind = "resolve") => ConformsToSchema(gResult.value)

----------------------------------------------------------------------------
(* Properties of parsePRUrl *)

\* the labels of the host name of a URL, as new URL reports them
HostLabels(url) == NewURL(url).value.hostParts

\* C12: parsePRUrl extracts the coordinates from both URL shapes: a path
\* /{org}/{project}/_git/{repo}/pullrequest/{id} yields exactly these four,
\* and https://{org}.visualstudio.com/{project}/_git/{repo}/pullrequest/{id}
\* yields the same four with the organization taken from the first host label
C12_ParsesBothShapes ==
    (pFn = "parsePRUrl" /\ pPc = "done" /\ pArg.href = "https") =>
        LET seg == pArg.segments
        IN  /\ (Len(seg) = 6 /\ seg[3] = "_git" /\ seg[5] = "pullrequest") =>
                    pResult = JObj([organization |-> JStr(seg[1]),
                                    project |-> JStr(seg[2]),
                                    repository |-> JStr(seg[4]),
                                    pullRequestId |-> JStr(seg[6])])
            /\ (/\ Len(HostLabels(pArg)) = 3
                /\ HostLabels(pArg)[2] = "visualstudio"
                /\ HostLabels(pArg)[3] = "com"
                /\ Len(seg) = 5 /\ seg[2] = "_git" /\ seg[4] = "pullrequest") =>
                    pResult = JObj([organization |-> JStr(HostLabels(pArg)[1]),
                                    project |-> JStr(seg[1]),
                                    repository |-> JStr(seg[3]),
                                    pullRequestId |-> JStr(seg[5])])

\* a pull request URL of each shape was parsed: this one of visualstudio.com
C12_Witness ==
    /\ pFn = "parsePRUrl" /\ pPc = "done"
    /\ pArg.href = "https"
    /\ pArg.host = <<"Contoso", "visualstudio", "com">>
    /\ pArg.segments = <<"contoso", "_git", "web", "pullrequest", "42">>
    /\ pArg.trailingSlash
    /\ Prop(pResult, "organization") = JStr("contoso")
    /\ Prop(pResult, "pullRequestId") = JStr("42")

\* the URL has one of the two supported shapes
SupportedShape(url) ==
    /\ url.href = "https"
    /\ \/ /\ Len(url.segments) = 6
          /\ url.segments[3] = "_git" /\ url.segments[5] = "pullrequest"
       \/ /\ Len(HostLabels(url)) = 3
          /\ HostLabels(url)[2] = "visualstudio" /\ HostLabels(url)[3] = "com"
          /\ Len(url.segments) = 5
          /\ url.segments[2] = "_git" /\ url.segments[4] = "pullrequest"

\* C13: for a text that is no URL or a URL of neither supported shape
\* startAnalysis sets the error 'Invalid Azure DevOps PR URL format.' (or
\* 'Pull Request URL and PAT are required.' when URL or PAT is empty), sends
\* no request and leaves every other field of the state unchanged
C13_InvalidUrlRefused ==
    [][\A url \in AppUrls : \A pat \in {"", "pat"} :
          (/\ StartAnalysisRefused(url, pat) \/ StartAnalysis(url, pat, MaxCalls)
           /\ url.href = "" \/ pat = "" \/ ~SupportedShape(url)) =>
              /\ calls' = calls
              /\ state' = [state EXCEPT !.error =
                     IF url.href = "" \/ pat = ""
                     THEN JStr("Pull Request URL and PAT are required.")
                     ELSE JStr("Invalid Azure DevOps PR URL format.")]]_vars

\* C14: when getPRDetails answers with a pull request whose status is
\* 'abandoned' in any letter case, startAnalysis ends there: the error is
\* 'This PR is abandoned.', isAnalyzing is false, analysis is null, and the
\* invocation requests neither the change list, file content nor the AI
C14_AbandonedStops ==
    [][\A c \in calls : \A status \in {"abandoned", "Abandoned"} :
          StartDetailsLoaded(c, status) =>
              /\ state'.error = JStr("This PR is abandoned.")
              /\ ~state'.isAnalyzing
              /\ state'.analysis = JNull
              /\ calls' = calls \ {c}]_vars

\* C19: for either AI provider, when the AI call of loadNextBatch fails the
\* batch is not counted: analysis and processedCount stay as they were, the
\* error is 'Batch failed: ...' and isAnalyzing is false again
C19_FailedBatchNotCounted ==
    [][\A c \in calls : \A upstream \in AppUpstreams :
          (upstream.type = "reject" /\ NextAnalyzed(c, upstream)) =>
              /\ state'.analysis = state.analysis
              /\ state'.processedCount = state.processedCount
              /\ ~state'.isAnalyzing
              /\ LET result == analyzeFunction(c.provider, apiKeys, upstream)
                 IN  /\ result.kind = "reject"
                     /\ state'.error = JStr("Batch failed: " \o result.message)]_vars

\* C20: when no unprocessed change remains (processedCount =
\* allChanges.length > 0) loadNextBatch starts no file-content request and no
\* AI call and leaves analysis and processedCount unchanged
C20_NothingLeftNoCall ==
    [][(/\ state.processedCount = Len(state.allChanges)
        /\ Len(state.allChanges) > 0
        /\ LoadNextBatch(MaxCalls)) =>
              /\ calls' = calls
              /\ state'.analysis = state.analysis
              /\ state'.processedCount = state.processedCount]_vars

----------------------------------------------------------------------------
(* Properties of generateTitleFromBranch and of the vote codes *)

\* C17: when the last '/'-separated segment of the source branch is digits,
\* '-' and a rest, generateTitleFromBranch sets the title '<digits>: <rest
\* with every '-' replaced by a space>'; otherwise it sets 'PR from <source
\* branch>'; with an empty source branch the title stays as it was
C17_TitleFromBranch ==
    (pFn = "generateTitleFromBranch" /\ pPc = "done") =>
        LET branch == pArg.sourceBranch
            start == CHOOSE i \in 1..(Len(branch) + 1) :
                         /\ i = 1 \/ branch[i - 1] = "/"
                         /\ \A j \in i..Len(branch) : branch[j] # "/"
            segment == SubSeq(branch, start, Len(branch))
            cuts == {k \in 1..(Len(segment) - 2) :
                         /\ \A i \in 1..k : segment[i] \in {"4", "7"}
                         /\ segment[k + 1] = "-"}
        IN  IF branch = <<>> THEN pResult = pArg.title
            ELSE IF cuts # {}
            THEN \E k \in cuts :
                     pResult = SubSeq(segment, 1, k) \o <<":", " ">> \o
                               [i \in 1..(Len(segment) - k - 1) |->
                                   IF segment[k + 1 + i] = "-" THEN " "
                                   ELSE segment[k + 1 + i]]
            ELSE pResult = <<"P", "R", " ", "f", "r", "o", "m", " ">> \o branch

\* the title of branch 7-a-a was generated: '7: a a'
C17_Witness ==
    /\ pFn = "generateTitleFromBranch" /\ pPc = "done"
    /\ pArg.sourceBranch = <<"7", "-", "a", "-", "a">>
    /\ pResult = <<"7", ":", " ", "a", " ", "a">>

\* the documented status text of a vote code
VoteText(vote) ==
    CASE vote = 0 -> "No vote"
      [] vote = 5 -> "Approved"
      [] vote = 10 -> "Approved with suggestions"
      [] vote = -5 -> "Waiting for author"
      [] vote = -10 -> "Rejected"
      [] OTHER -> "Unknown"

\* C18: for every vote code the text of the review service's getVoteStatus
\* and of PRCreationResult's getVoteStatus is the one of the documented
\* table, and each vote button submits the code whose status text matches
\* its label
C18_VoteTable ==
    /\ (pFn \in {"getVoteStatus", "PRCreationResult.getVoteStatus"} /\ pPc = "done") =>
           pResult.text = VoteText(pArg)
    /\ (pFn = "handleVote" /\ pPc = "done") =>
           VoteText(pResult) =
               CASE pArg.label = "Approve" -> "Approved"
                 [] pArg.label = "Approve w/ Suggestions" -> "Approved with suggestions"
                 [] pArg.label = "Wait for Author" -> "Waiting for author"
                 [] pArg.label = "Reject" -> "Rejected"

\* PRCreationResult has shown the status of vote code 10
C18_Witness ==
    /\ pFn = "PRCreationResult.getVoteStatus" /\ pPc = "done"
    /\ pArg = 10
    /\ pResult.text = "Approved with suggestions"

----------------------------------------------------------------------------
(* Properties of the forms *)

\* C15: handleSubmit sends the create-PR request only when organization,
\* project, repository, source branch, target branch and title are non-empty
\* and both branchValidation flags are true; in every other case it sets the
\* corresponding error, sends no request and leaves isCreating false
C15_SubmitGuard ==
    (pFn = "PRCreationForm.handleSubmit" /\ pPc = "done") =>
        LET complete ==
                \A field \in {"organization", "project", "repository",
                              "sourceBranch", "targetBranch", "title"} :
                    pArg[field].t = "str" /\ pArg[field].v # ""
        IN  IF complete /\ pArg.branchValidation.source /\ pArg.branchValidation.target
            THEN TRUE
            ELSE /\ pResult.requests = <<>>
                 /\ ~pResult.isCreating
                 /\ pResult.error = JStr(
                        IF ~complete
                        THEN "Organization, project, repository, source branch, target branch, and title are required."
                        ELSE IF ~pArg.branchValidation.source
                        THEN "Source branch does not exist or you don't have access to it."
                        ELSE "Target branch does not exist or you don't have access to it.")

\* a complete form whose target branch is not validated was submitted
C15_Witness ==
    /\ pFn = "PRCreationForm.handleSubmit" /\ pPc = "done"
    /\ \A field \in {"organization", "project", "repository", "sourceBranch",
                     "targetBranch", "title"} : Truthy(pArg[field])
    /\ pArg.branchValidation = [source |-> TRUE, target |-> FALSE]
    /\ pResult.requests = <<>>
    /\ pResult.error # JNull

\* C16: in PRCreationForm, PRReviewForm and PRReviewAnalysis entering a URL
\* that parsePRUrl recognises sets organization, project and repository (and
\* the PR ID in the two review forms) to the parsed values, and entering an
\* unrecognised URL leaves these fields unchanged
C16_UrlAutoFill ==
    \A component \in {"PRCreationForm", "PRReviewForm", "PRReviewAnalysis"} :
        (pFn = component \o ".setPrUrl" /\ pPc = "done") =>
            LET params == IF component = "PRReviewAnalysis"
                          THEN PRReviewAnalysis_parsePRUrl(pArg.prUrl)
                          ELSE parsePRUrl(pArg.prUrl)
                filled == {"organization", "project", "repository"} \cup
                          (IF component = "PRCreationForm" THEN {}
                           ELSE {"pullRequestId"})
            IN  \A field \in filled :
                    pResult[field] = IF params # JNull THEN Prop(params, field)
                                     ELSE pArg.fields[field]

----------------------------------------------------------------------------
(* Failure isolation in fetchBatchContents *)

\* the content of the entry that settled last
LastContent(settled) == Prop(settled[Len(settled)].value, "content").v

\* a change of a skipped type is settled with content "" and never requested
SkippedWithoutRequest ==
    fPc # "call" =>
        \A i \in 1..Len(fChanges) :
            (Truthy(PathOf(fChanges[i])) /\ IsSkipped(fChanges[i])) =>
                /\ i \notin fRequests
                /\ \E k \in 1..Len(fSettled) :
                       /\ fSettled[k].index = i
                       /\ Prop(fSettled[k].value, "content") = JStr("")

\* the batch resolves with an entry for every change that has a path
BatchNotFailed == fPc = "done" => Len(fResult) = Len(WithPath(fChanges))

\* the end of one request sets the content of its own file, okContent(body)
\* when the response was OK, and leaves the entries of the other files alone
FileIsolated(okContent(_)) ==
    \A i \in fRequests : \A outcome \in FileOutcomes :
        FileRequestEnded(i, outcome) =>
            LET body == ResponseText(PathOf(fChanges[i])) IN
                /\ SubSeq(fSettled', 1, Len(fSettled)) = fSettled
                /\ fSettled'[Len(fSettled')].index = i
                /\ Prop(fSettled'[Len(fSettled')].value, "path") = PathOf(fChanges[i])
                /\ LastContent(fSettled') =
                       CASE outcome = "throws" -> "[Error fetching content]"
                         [] outcome = "not ok" -> ""
                         [] outcome = "ok"     -> okContent(body)

\* C26: in fetchBatchContents a failure on one file does not fail the batch
\* or affect other files: a request that throws gives the content
\* "[Error fetching content]", a response that is not OK gives "", a change
\* of type delete or none (any letter case) gives "" without a request, and
\* every other file's content is what its own response returned.
C26_FailureIsolated ==
    /\ [](SkippedWithoutRequest /\ BatchNotFailed)
    /\ [][FileIsolated(LAMBDA body : body.text)]_vars

\* the content the code keeps of the text of an OK response
KeptContent(body) ==
    IF body.nul THEN "[Binary File - Skipping analysis]"
    ELSE IF body.length <= ContentLimit THEN body.text
    ELSE Substring(body.text, ContentLimit) \o "\n... [TRUNCATED]"

\* C26, amended: as above, but the content of a file whose response is OK is
\* the response text only when it holds no NUL character and is at most
\* 20000 characters long; a text with a NUL character is replaced by
\* "[Binary File - Skipping analysis]" and a longer text is cut to its first
\* 20000 characters followed by "\n... [TRUNCATED]".
C26_FailureIsolatedKept ==
    /\ [](SkippedWithoutRequest /\ BatchNotFailed)
    /\ [][FileIsolated(KeptContent)]_vars

\* a resolved batch with a file whose request threw, a file whose text was
\* cut and a change of type "Delete" that was not requested
C26_Witness ==
    /\ fPc = "done"
    /\ \E j, k, l \in 1..Len(fResult) :
           /\ Prop(fResult[j], "content") = JStr("[Error fetching content]")
           /\ Prop(fResult[k], "content")
                  = JStr(Substring(TextAt(Prop(fResult[k], "path")), ContentLimit)
                         \o "\n... [TRUNCATED]")
           /\ Prop(fResult[l], "changeType") = JStr("Delete")
           /\ Prop(fResult[l], "content") = JStr("")

----------------------------------------------------------------------------
(* The fallback chain of getPRFileDiffs *)

\* the outcomes after which a step of the chain has yielded no changes
NoChanges == {"failed", "no data"}

\* the requests of the chain are made in its order, each only after the
\* step before it failed or returned no changes
ChainInOrder ==
    \A k \in 1..Len(sLog) :
        /\ k = 1 => sLog[k].url = ChangesUrl
        /\ sLog[k].url = IterationsUrl =>
               k = 2 /\ sLog[1].outcome \in NoChanges
        /\ sLog[k].url = IterationChangesUrl =>
               k = 3 /\ sLog[2].url = IterationsUrl /\ sLog[2].outcome = "data"
        /\ (k > 1 /\ sLog[k].url = getPRFilesUrl) =>
               /\ sLog[1].outcome \in NoChanges
               /\ sLog[k - 1].url \in {IterationsUrl, IterationChangesUrl}
               /\ sLog[k - 1].outcome \in NoChanges
        /\ sLog[k].url[1] = "items" =>
               \E j \in 1..(k - 1) :
                   /\ sLog[j].url \in {ChangesUrl, IterationChangesUrl}
                   /\ sLog[j].outcome = "data"
                   /\ \A i \in 1..j : sLog[i].url[1] # "items"

\* a content of the entry of change i is set only by a request of its own
\* path and commit that ended OK
ContentFetched(entry, field, commit) ==
    entry[field] # "" =>
        \E k \in 1..Len(sLog) :
            /\ sLog[k].url = ItemUrl(entry.path, commit)
            /\ sLog[k].outcome = "ok"

\* C25: getPRFileDiffs never rejects because of an upstream failure: it
\* tries the PR changes endpoint, then the latest iteration's changes, then
\* the basic file list, in that order, moving on only when the previous step
\* failed or returned no changes, and returns [] when all three yield
\* nothing; when changes are found it returns exactly one entry per change in
\* the same order, with empty sourceContent and targetContent for any file
\* whose content could not be fetched.
C25_DiffsFallbackChain ==
    sOp = "getPRFileDiffs" =>
        /\ ChainInOrder
        /\ sPc = "done" =>
               /\ sResult.kind = "resolve"
               /\ LET result == sResult.value
                      last == sLog[Len(sLog)]
                  IN  IF last.url = getPRFilesUrl /\ Len(sLog) > 1
                      THEN /\ last.outcome \in NoChanges => result = <<>>
                           /\ \A k \in 1..Len(result) :
                                  result[k] = BasicFile(ChangeList(Len(result))[k])
                      ELSE /\ Len(sChanges) > 0
                           /\ Len(result) = Len(sChanges)
                           /\ \A k \in 1..Len(result) :
                                  /\ result[k].path = sChanges[k]
                                  /\ ContentFetched(result[k], "sourceContent",
                                                    "source commit")
                                  /\ ContentFetched(result[k], "targetContent",
                                                    "target commit")

\* the changes endpoint failed, the latest iteration listed two changes, and
\* the result holds the first with its contents and the second, whose source
\* request threw after the first file's requests, without any
C25_Witness ==
    /\ sOp = "getPRFileDiffs" /\ sPc = "done"
    /\ sLog[1] = Failed(ChangesUrl)
    /\ Len(sFiles) = 2 /\ sFiles[1].index = 2
    /\ Len(sResult.value) = 2
    /\ sResult.value[1].sourceContent # "" /\ sResult.value[1].targetContent # ""
    /\ sResult.value[2].sourceContent = "" /\ sResult.value[2].targetContent = ""
    /\ \E k \in 1..Len(sLog) :
           sLog[k] = [url |-> ItemUrl(2, "source commit"), outcome |-> "throws"]

\* all three steps yielded nothing and getPRFileDiffs returned []
C25_WitnessEmpty ==
    /\ sOp = "getPRFileDiffs" /\ sPc = "done"
    /\ sLog[Len(sLog)] = Failed(getPRFilesUrl) /\ Len(sLog) > 1
    /\ sResult = Resolve(<<>>)

----------------------------------------------------------------------------
(* Properties of addReviewersToPR and linkWorkItemsToPR *)

\* the values of a property of the bodies of a list of requests
BodiesOf(requests, property) ==
    [k \in 1..Len(requests) |-> Prop(requests[k].body, property)]

\* C27: addReviewersToPR adds every reviewer of the list it is given, one
\* POST per reviewer, and linkWorkItemsToPR likewise links every work item
\* id of its list; with an empty list neither sends a request.
C27_EveryItemPosted ==
    /\ (pFn = "addReviewersToPR" /\ pPc = "done") =>
           /\ BodiesOf(pResult, "uniqueName")
                  = [k \in 1..Len(pArg.reviewers) |-> JStr(pArg.reviewers[k])]
           /\ \A k \in 1..Len(pResult) :
                  Prop(pResult[k].body, "isRequired") = JBool(pArg.isRequired)
    /\ (pFn = "linkWorkItemsToPR" /\ pPc = "done") =>
           BodiesOf(pResult, "id") = [k \in 1..Len(pArg) |-> JStr(ToString(pArg[k]))]

----------------------------------------------------------------------------
(* Properties of the branch validation of PRCreationForm *)

\* the validateBranch call of a field that started last returned true for
\* this branch name
LastValidationTrue(type, branchName) ==
    \E k \in 1..Len(cValidations) :
        /\ cValidations[k].type = type
        /\ \A j \in (k + 1)..Len(cValidations) : cValidations[j].type # type
        /\ cValidations[k].branchName = branchName
        /\ cValidations[k].result = "true"

\* C21: branch validation is never stale at submit time: whenever
\* PRCreationForm sends the create-PR request, the source and target branch
\* names in the request are names for which the most recently started
\* validateBranchExists call for that field returned true, for every
\* interleaving of edits, validation responses and submit.
C21_ValidationFresh ==
    [][Len(cRequests') > Len(cRequests) =>
           LET request == cRequests'[Len(cRequests')]
           IN  /\ LastValidationTrue("source", request.sourceBranch)
               /\ LastValidationTrue("target", request.targetBranch)]_vars

----------------------------------------------------------------------------
(* Properties of PRReviewAnalysis *)

\* the texts of a diff are texts of the file of this path
OwnTexts(diff) ==
    /\ diff.sourceText.path = diff.path
    /\ diff.targetText.path = diff.path

\* C22: the diff shown for the selected file, and the diff text sent to the
\* AI by analyzeFileChanges, is always computed from that file's own source
\* and target contents, raw or formatted: after the selection changes from
\* file A to file B, formatted text of A is never used together with B's
\* path.
C22_DiffOfSelectedFile ==
    /\ rSelectedFile # NoFile =>
           OwnTexts(DiffTexts(rSelectedFile, rFormattedSource, rFormattedTarget))
    /\ \A k \in 1..Len(rAnalysisRequests) : OwnTexts(rAnalysisRequests[k])

\* C23: reviewDetails and fileDiffs always come from the same load request,
\* and once all loads have completed (the last one with success) they belong
\* to the pull request the fields name: a response for earlier field values
\* that arrives after the response for later values never overwrites it.
C23_LoadsNotOverwritten ==
    /\ rReviewDetails = rFileDiffs
    /\ (/\ Len(rLoads) > 0
        /\ \A k \in 1..Len(rLoads) : rLoads[k].status # "pending"
        /\ rLoads[Len(rLoads)].status = "done")
           => (rReviewDetails.pr = rFields /\ rFileDiffs.pr = rFields)

----------------------------------------------------------------------------
(* Properties of the busy flags *)

====
